---- MODULE Spec2Model ----
(***************************************************************************)
(* Model of the cloud billing exporter: the report reducers of the AWS     *)
(* and GCP packages, the AWS billing source (Query, AccountByID and the    *)
(* directory cache) and the GCP billing source (OldQuery, GetReports and   *)
(* the resources metadata).  Costs are whole currency units.               *)
(***************************************************************************)
EXTENDS Integers, Sequences, FiniteSets, TLC

VARIABLES
  \* the reducers: input line items and the returned elements
  awsIn, awsOut, gcpIn, gcpOut

VARIABLES
  \* the clock read by time.Now()
  now,
  \* AWSBilling: configuration
  rootAccountID, accountNameByIDOverride,
  \* AWSBilling: the directory cache
  accountNameByIDAPI, accountNameByIDAPILastUpdate,
  \* AWSBilling: the last report parsed, the last cumulative cost per key and
  \* the exported counters per label set
  ReportHash, awsMetricValues, awsMetricMonthlyCosts,
  \* the process died of a panic in Counter.Add
  awsPanicked,
  \* the last two calls of the organizations listing, and what the last
  \* call of the source did and returned
  awsListings, awsRet

VARIABLES
  \* the billing source the exporter is started for: "aws", "gcp" or ""
  source,
  \* the calendar month of the clock, [year, month]
  today,
  \* GCPBilling: the window of parsed reports and the prefix it belongs to
  Reports, ReportsMonthPrefix,
  \* GCPBilling: the last cumulative cost per key and the exported counters
  gcpMetricValues, gcpMetricMonthlyCosts,
  \* resourcesMetadata
  metadataByProjectID, metadataByID, lastUpdate,
  \* the last two listings update made of the resource manager: [at, ok]
  gcpListings,
  \* what the last call of OldQuery returned
  gcpRet

VARIABLES
  \* a function called on its own: the call [fn, arguments] and what it
  \* returned, [done, r]
  call, result

VARIABLES
  \* the holder of the source's ReportsLock (0: nobody) and, per caller of
  \* Query, how far its call has come: [pc, selected, todo]; the holder of
  \* the mutex of the source's directory cache (accountNameByIDAPILock of
  \* AWSBilling, updateLock of resourcesMetadata)
  ReportsLock, queries, updateLock

VARIABLES
  \* GetReports step by step: how far the call has come, [pc, rest, errAfter,
  \* prefix], with the objects its listing holds and the window it started
  \* from, [objects, window]; the getReportFile goroutines that have not
  \* ended; and, per slot of the window, the prefix of the object its content
  \* was decoded from
  fetch, tasks, ReportsFrom

VARIABLES
  \* BillingCollector: the sources a bucket name is given for, what Test
  \* returned for each, the active collectors, how far Run has come, the
  \* number of Collect calls, the sources whose Query goroutine of the
  \* running Collect has not ended and, per source, the number of Query
  \* calls Collect made and what the last one returned
  configured, tested, collectors, run, collects, inFlight, queried, lastQuery

reduceVars == <<awsIn, awsOut, gcpIn, gcpOut>>
runVars ==
  <<configured, tested, collectors, run, collects, inFlight, queried, lastQuery>>
fetchVars == <<fetch, tasks, ReportsFrom>>
passVars == <<ReportsLock, queries, updateLock>>
callVars == <<call, result>>
awsVars ==
  <<rootAccountID, accountNameByIDOverride, accountNameByIDAPI,
    accountNameByIDAPILastUpdate, ReportHash, awsMetricValues,
    awsMetricMonthlyCosts, awsPanicked, awsListings, awsRet>>
gcpVars ==
  <<today, Reports, ReportsMonthPrefix, gcpMetricValues, gcpMetricMonthlyCosts,
    metadataByProjectID, metadataByID, lastUpdate, gcpListings, gcpRet>>
\* the variables of the sources and the ones the sources' calls leave alone
coreVars == <<reduceVars, source, now, awsVars, gcpVars>>
restVars == <<callVars, passVars, fetchVars, runVars>>
vars == <<coreVars, restVars>>

(* ----------------------------- bounds ---------------------------------- *)
\* longest sequence of raw line items handed to a reducer
MaxItems == 3
\* last instant of the clock
MaxClock == 4

(* ------------------------- program constants --------------------------- *)
\* time.Hour, in clock units
Hour == 1
\* the zero value of time.Time
ZeroTime == 0
\* const ReportsPerMonth = 32
ReportsPerMonth == 32

NIL == "<nil>"

(* ------------------------------ strings -------------------------------- *)
\* AWS linked account ids and product codes
AccountIDs   == {"111", "999"}
ProductCodes == {"S3", "EC2"}
\* GCP project ids and service names
ProjectIDs   == {"acme", "acme-dev"}
Currencies   == {"USD"}
CostValues   == {-1, 1, 2}

RECURSIVE SumSeq(_)
SumSeq(s) == IF s = <<>> THEN 0 ELSE Head(s) + SumSeq(Tail(s))

Range(s) == {s[i] : i \in DOMAIN s}

SeqsUpTo(S, n) == UNION {[1..k -> S] : k \in 0..n}


\* strconv.ParseFloat on the cost strings that occur in reports. The costs of
\* the reports are multiples of 0.5, which float64 adds exactly: the float64
\* value v is held as the integer 2 * v
ParseFloat(s) ==
  CASE s = "1"     -> [ok |-> TRUE, val |-> 2]
    [] s = "2"     -> [ok |-> TRUE, val |-> 4]
    [] s = "-1"    -> [ok |-> TRUE, val |-> -2]
    [] s = "12.50" -> [ok |-> TRUE, val |-> 25]
    [] OTHER       -> [ok |-> FALSE, val |-> 0]

\* the decimal text of a cost
FormatCost(n) ==
  CASE n = 2 -> "1" [] n = 4 -> "2" [] n = -2 -> "-1" [] n = 25 -> "12.50"
    [] OTHER -> "x"

(* ------------------------- AWS report reducer -------------------------- *)
awsBillingElement(projectID, serviceName, costs, currency) ==
  [ProjectName |-> "", ProjectID |-> projectID, ServiceName |-> serviceName,
   Costs |-> costs, Currency |-> currency]

AWSElements ==
  {awsBillingElement(p, s, v, c) :
     p \in AccountIDs, s \in ProductCodes, v \in CostValues, c \in Currencies}

awsGroupByProjectIDServiceCurrency(e) ==
  e.ProjectID \o "-" \o e.ServiceName \o "-" \o e.Currency

RECURSIVE awsReduceLoop(_, _, _, _)
awsReduceLoop(elementsIn, i, keyMap, elementsOut) ==
  IF i > Len(elementsIn) THEN elementsOut
  ELSE
    LET elem == elementsIn[i]
        key  == awsGroupByProjectIDServiceCurrency(elem)
    IN  IF key \notin DOMAIN keyMap
        THEN awsReduceLoop(elementsIn, i + 1,
               keyMap @@ (key :> Len(elementsOut) + 1),
               Append(elementsOut,
                 [ProjectID |-> elem.ProjectID, ProjectName |-> elem.ProjectName,
                  ServiceName |-> elem.ServiceName, Costs |-> elem.Costs,
                  Currency |-> elem.Currency]))
        ELSE awsReduceLoop(elementsIn, i + 1, keyMap,
               [elementsOut EXCEPT ![keyMap[key]].Costs = @ + elem.Costs])

awsReduceElementsByFunc(elementsIn) ==
  awsReduceLoop(elementsIn, 1, <<>>, <<>>)

(* ------------------------- GCP report reducer -------------------------- *)
\* a MeasurementID is kept as its tokens: words and the separator "/"
RECURSIVE StrOf(_)
StrOf(tokens) == IF tokens = <<>> THEN "" ELSE Head(tokens) \o StrOf(Tail(tokens))

\* strings.Split(s, "/")
RECURSIVE SplitSlash(_, _)
SplitSlash(tokens, cur) ==
  IF tokens = <<>> THEN <<cur>>
  ELSE IF Head(tokens) = "/" THEN <<cur>> \o SplitSlash(Tail(tokens), "")
  ELSE SplitSlash(Tail(tokens), cur \o Head(tokens))

gcpBillingElement(projectID, serviceName, measurements, amount, currency, value) ==
  [ProjectName |-> "", ProjectID |-> projectID, ServiceName |-> serviceName,
   Measurements |-> measurements,
   Cost |-> [Amount |-> amount, Currency |-> currency, Value |-> value]]

GetServiceName(e) ==
  IF e.ServiceName # "" THEN e.ServiceName
  ELSE IF Len(e.Measurements) # 1 THEN "misc"
  ELSE LET service == StrOf(e.Measurements[1].MeasurementID)
           parts   == SplitSlash(e.Measurements[1].MeasurementID, "")
       IN  IF Len(parts) >= 3 /\ parts[2] = "services" THEN parts[3] ELSE service

GetValue(e) ==
  IF e.Cost.Amount # "" /\ ParseFloat(e.Cost.Amount).ok
  THEN ParseFloat(e.Cost.Amount).val
  ELSE e.Cost.Value

MeasurementIDs ==
  {<<"com.google.cloud", "/", "services", "/", "dev-sql">>, <<"sql">>}

\* (ServiceName, Measurements) as they come in a raw report element
GCPServiceShapes ==
  {<<"sql", <<>>>>, <<"", <<>>>>}
  \cup {<<"", <<[MeasurementID |-> m]>>>> : m \in MeasurementIDs}

\* (Amount, Value) as they come in a raw report element
GCPCostShapes == {<<"1", 0>>, <<"2", 0>>, <<"-1", 0>>}

GCPElements ==
  {gcpBillingElement(p, sh[1], sh[2], co[1], c, co[2]) :
     p \in ProjectIDs, sh \in GCPServiceShapes, co \in GCPCostShapes,
     c \in Currencies}

gcpGroupByProjectIDServiceCurrency(e) ==
  e.ProjectID \o "-" \o GetServiceName(e) \o "-" \o e.Cost.Currency

RECURSIVE gcpReduceLoop(_, _, _, _)
gcpReduceLoop(elementsIn, i, keyMap, elementsOut) ==
  IF i > Len(elementsIn) THEN elementsOut
  ELSE
    LET elem == elementsIn[i]
        key  == gcpGroupByProjectIDServiceCurrency(elem)
    IN  IF key \notin DOMAIN keyMap
        THEN gcpReduceLoop(elementsIn, i + 1,
               keyMap @@ (key :> Len(elementsOut) + 1),
               Append(elementsOut,
                 [ProjectID |-> elem.ProjectID, ProjectName |-> elem.ProjectName,
                  ServiceName |-> GetServiceName(elem), Measurements |-> <<>>,
                  Cost |-> [Amount |-> "", Currency |-> elem.Cost.Currency,
                            Value |-> GetValue(elem)]]))
        ELSE gcpReduceLoop(elementsIn, i + 1, keyMap,
               [elementsOut EXCEPT ![keyMap[key]].Cost.Value = @ + GetValue(elem)])

\* a variant of gcpReduceElementsByFunc that returns the group seen first
\* last
gcpReduceElementsFirstLast(elementsIn) ==
  LET out == gcpReduceLoop(elementsIn, 1, <<>>, <<>>)
  IN  IF out = <<>> THEN <<>> ELSE Append(Tail(out), Head(out))

\* the reduced elements, each with the cost string of the first item of its
\* group left in place
RECURSIVE withFirstAmount(_, _)
withFirstAmount(elementsOut, elementsIn) ==
  IF elementsOut = <<>> THEN <<>>
  ELSE LET key == gcpGroupByProjectIDServiceCurrency(Head(elementsOut))
           i == CHOOSE i \in DOMAIN elementsIn :
                  /\ gcpGroupByProjectIDServiceCurrency(elementsIn[i]) = key
                  /\ \A j \in 1..(i - 1) :
                       gcpGroupByProjectIDServiceCurrency(elementsIn[j]) # key
       IN  <<[Head(elementsOut) EXCEPT !.Cost.Amount = elementsIn[i].Cost.Amount]>>
             \o withFirstAmount(Tail(elementsOut), elementsIn)

\* a variant of gcpReduceElementsByFunc that accumulates into a copy of the
\* first item of a group, cost string included
gcpReduceElementsKeepingAmount(elementsIn) ==
  withFirstAmount(gcpReduceLoop(elementsIn, 1, <<>>, <<>>), elementsIn)

gcpReduceElementsByFunc(elementsIn) ==
  gcpReduceLoop(elementsIn, 1, <<>>, <<>>)

reduceElementsByProjectIDServiceCurrency(elementsIn) ==
  gcpReduceElementsByFunc(elementsIn)


(* ------------------------ AWS directory cache -------------------------- *)
AccountTypeProject          == "Project"
AccountTypeOrganizationUnit == "OrganizationUnit"
AccountTypeOrganization     == "Organization"

Account(id, name) ==
  [ID |-> id, Name |-> name, Owner |-> "", Parent |-> "", Path |-> "",
   Type |-> AccountTypeProject]

\* the tag keys the source is configured with
OwnerTag     == "owner"
ProjectIDTag == "project-id"

\* strings.Split(s, sep) on a tokenised string
RECURSIVE Split(_, _, _)
Split(tokens, sep, cur) ==
  IF tokens = <<>> THEN <<cur>>
  ELSE IF Head(tokens) = sep THEN <<cur>> \o Split(Tail(tokens), sep, "")
  ELSE Split(Tail(tokens), sep, cur \o Head(tokens))

\* strings.Join(parts, sep)
RECURSIVE Join(_, _)
Join(parts, sep) ==
  IF parts = <<>> THEN ""
  ELSE IF Len(parts) = 1 THEN parts[1]
  ELSE parts[1] \o sep \o Join(Tail(parts), sep)

\* strings.HasPrefix on the ids the organization uses
HasPrefix(s, prefix) ==
  CASE prefix = "r-"  -> s \in {"r-1"}
    [] prefix = "ou-" -> s \in {"ou-1", "ou-2"}
    [] OTHER -> FALSE

\* strings.HasPrefix(id, "projects/") on resource ids
HasProjectsPrefix(id) == id \in {"projects/1", "projects/2"}

\* deepest chain of ancestors followed before the walk is given up
MaxDepth == 4

\* getAccountPath: the ancestors' names of ac, root first.  dir is the
\* organizations API as it answers during this refresh.
RECURSIVE getAccountPath(_, _, _, _)

\* the result of getAccountPath
pathResult(err, path, ac, accountMap) ==
  [err |-> err, path |-> path, ac |-> ac, accountMap |-> accountMap]

\* a variant of getAccountPathAppend that puts the parent's name in front
getAccountPathPrepend(ac, parent, r) ==
  IF r.err # ""
  THEN pathResult(r.err, <<>>, ac, (parent.ID :> r.ac) @@ r.accountMap)
  ELSE pathResult("", <<parent.Name>> \o r.path, ac,
                  (parent.ID :> r.ac) @@ r.accountMap)

\* getAccountPath once the parent's own walk has answered r
getAccountPathAppend(ac, parent, r) ==
  IF r.err # ""
  THEN pathResult(r.err, <<>>, ac, (parent.ID :> r.ac) @@ r.accountMap)
  ELSE pathResult("", Append(r.path, parent.Name), ac,
                  (parent.ID :> r.ac) @@ r.accountMap)

\* getAccountPath once the parent is in accountMap
getAccountPathRecurse(ac, parent, accountMap, dir, depth) ==
  IF depth = 0
  THEN pathResult("stack overflow", <<>>, ac, accountMap)
  ELSE getAccountPathAppend(ac, parent,
         getAccountPath(parent, accountMap, dir, depth - 1))

\* the parent getAccountPath describes through the API
describeParent(id, dir) ==
  IF HasPrefix(id, "r-")
  THEN [Account(id, Split(dir.org.email, "@", "")[2])
          EXCEPT !.Type = AccountTypeOrganization]
  ELSE [Account(id, dir.ous[id].name)
          EXCEPT !.Type = AccountTypeOrganizationUnit]

\* ac.Parent = parent as seen through accountMap: the map holds pointers, so
\* an account that is in the map is changed there too
withParentSet(accountMap, id, parent) ==
  IF id \in DOMAIN accountMap
  THEN [accountMap EXCEPT ![id].Parent = parent]
  ELSE accountMap

\* getAccountPath once ac.Parent is set
getAccountPathParent(ac, accountMap, dir, depth) ==
  IF ac.Parent \in DOMAIN accountMap
  THEN getAccountPathRecurse(ac, accountMap[ac.Parent], accountMap, dir, depth)
  ELSE IF HasPrefix(ac.Parent, "r-")
  THEN IF dir.org.err
       THEN pathResult("describe organization", <<>>, ac, accountMap)
       ELSE getAccountPathRecurse(ac, describeParent(ac.Parent, dir),
              (ac.Parent :> describeParent(ac.Parent, dir)) @@ accountMap,
              dir, depth)
  ELSE IF HasPrefix(ac.Parent, "ou-")
  THEN IF dir.ous[ac.Parent].err
       THEN pathResult("describe organizational unit", <<>>, ac, accountMap)
       ELSE getAccountPathRecurse(ac, describeParent(ac.Parent, dir),
              (ac.Parent :> describeParent(ac.Parent, dir)) @@ accountMap,
              dir, depth)
  ELSE pathResult("unkown parent id", <<>>, ac, accountMap)

getAccountPath(ac, accountMap, dir, depth) ==
  IF ac.Type = AccountTypeOrganization
  THEN pathResult("", <<>>, ac, accountMap)
  ELSE IF ac.Parent # ""
  THEN getAccountPathParent(ac, accountMap, dir, depth)
  ELSE IF dir.parents[ac.ID].err
  THEN pathResult("error listing parents", <<>>, ac, accountMap)
  ELSE IF Len(dir.parents[ac.ID].ids) = 0
  THEN pathResult("", <<>>, ac, accountMap)
  ELSE IF Len(dir.parents[ac.ID].ids) # 1
  THEN pathResult("expected only a single parent", <<>>, ac, accountMap)
  ELSE getAccountPathParent([ac EXCEPT !.Parent = dir.parents[ac.ID].ids[1]],
                            withParentSet(accountMap, ac.ID,
                                          dir.parents[ac.ID].ids[1]),
                            dir, depth)

\* one tag of an account applied
applyTag(ac, tag) ==
  [ac EXCEPT !.Name  = IF tag.Key = ProjectIDTag THEN tag.Value ELSE @,
             !.Owner = IF tag.Key = OwnerTag THEN tag.Value ELSE @]

\* the tags of one account applied in order
RECURSIVE applyTags(_, _)
applyTags(ac, tags) ==
  IF tags = <<>> THEN ac
  ELSE applyTags(applyTag(ac, Head(tags)), Tail(tags))

\* the account the ListAccounts callback builds from a listed account
listedAccount(account) ==
  IF account.Tags.err THEN Account(account.Id, account.Name)
  ELSE applyTags(Account(account.Id, account.Name), account.Tags.tags)

\* the account stored once getAccountPath has answered r
accountWithPath(r) ==
  IF r.err # "" THEN r.ac ELSE [r.ac EXCEPT !.Path = Join(r.path, "/")]

\* the ListAccounts callback over the listed accounts
RECURSIVE listAccountsLoop(_, _, _)

\* a variant of listAccountsStore that leaves out an account whose path
\* could not be built
listAccountsStoreSkipping(accounts, r, dir) ==
  listAccountsLoop(accounts,
                   IF r.err # "" THEN r.accountMap
                   ELSE (r.ac.ID :> accountWithPath(r)) @@ r.accountMap,
                   dir)

\* the callback once getAccountPath has answered r: accountMap[ac.ID] = ac
listAccountsStore(accounts, r, dir) ==
  listAccountsLoop(accounts, (r.ac.ID :> accountWithPath(r)) @@ r.accountMap,
                   dir)

listAccountsLoop(accounts, accountMap, dir) ==
  IF accounts = <<>> THEN accountMap
  ELSE listAccountsStore(Tail(accounts),
         getAccountPath(listedAccount(Head(accounts)), accountMap, dir, MaxDepth),
         dir)

\* getAccountNameByIDAPI: the new mapping, or an error
getAccountNameByIDAPI(dir) ==
  IF dir.listErr THEN [err |-> TRUE, m |-> <<>>]
  ELSE [err |-> FALSE, m |-> listAccountsLoop(dir.accounts, <<>>, dir)]

\* the listings kept when a listing at time t ended ok
listed(listings, t, ok) ==
  Append(IF Len(listings) = 2 THEN Tail(listings) ELSE listings,
         [at |-> t, ok |-> ok])

\* AccountByID once the listing has answered r: the cache
\* c = [api, lastUpdate, listings] at time t, where api = [nil, m] is the
\* map accountNameByIDAPI (nil before the first successful listing) and
\* listings keeps the last two calls of the listing
AccountByIDStore(c, r, t) ==
  IF r.err THEN [c EXCEPT !.listings = listed(c.listings, t, FALSE)]
  ELSE [api |-> [nil |-> FALSE, m |-> r.m], lastUpdate |-> t,
        listings |-> listed(c.listings, t, TRUE)]

\* a variant of AccountByIDRefresh that lists the directory on every call
AccountByIDRefreshAlways(c, dir, t) ==
  AccountByIDStore(c, getAccountNameByIDAPI(dir), t)

\* the refresh at the head of AccountByID
AccountByIDRefresh(c, dir, t) ==
  IF c.api.nil \/ t - Hour > c.lastUpdate
  THEN AccountByIDStore(c, getAccountNameByIDAPI(dir), t)
  ELSE c

\* a variant of AccountByIDLookup in which the directory's name wins over
\* the override
DirectoryFirstLookup(c, override, id) ==
  [cache |-> c,
   account |-> IF id \in DOMAIN c.api.m THEN c.api.m[id]
               ELSE IF id \in DOMAIN override THEN Account(id, override[id])
               ELSE Account(id, "unknown-" \o id)]

AccountByIDDirectoryFirst(c, override, id, dir, t) ==
  DirectoryFirstLookup(AccountByIDRefresh(c, dir, t), override, id)

\* the lookup of AccountByID in the refreshed cache; the override is
\* written into the cached account
AccountByIDLookup(c, override, id) ==
  IF id \in DOMAIN c.api.m
  THEN IF id \in DOMAIN override
       THEN [cache |-> [c EXCEPT !.api.m[id].Name = override[id]],
             account |-> [c.api.m[id] EXCEPT !.Name = override[id]]]
       ELSE [cache |-> c, account |-> c.api.m[id]]
  ELSE IF id \in DOMAIN override
  THEN [cache |-> c, account |-> Account(id, override[id])]
  ELSE [cache |-> c, account |-> Account(id, "unknown-" \o id)]

\* a variant of AccountByIDLookup whose placeholder name leaves out the ID
BarePlaceholderLookup(c, override, id) ==
  IF id \in DOMAIN c.api.m \/ id \in DOMAIN override
  THEN AccountByIDLookup(c, override, id)
  ELSE [cache |-> c, account |-> Account(id, "unknown")]

AccountByIDBarePlaceholder(c, override, id, dir, t) ==
  BarePlaceholderLookup(AccountByIDRefresh(c, dir, t), override, id)

AccountByID(c, override, id, dir, t) ==
  AccountByIDLookup(AccountByIDRefresh(c, dir, t), override, id)

\* the lookup of AccountNameByID in the refreshed cache
AccountNameByIDLookup(c, id) ==
  [cache |-> c,
   name |-> IF id \in DOMAIN c.api.m THEN c.api.m[id].Name
            ELSE "unknown-" \o id]

\* AccountNameByID of the earlier revision: the override is returned before
\* the cache is looked at; the cache is refreshed under the same condition
AccountNameByID(c, override, id, dir, t) ==
  IF id \in DOMAIN override
  THEN [cache |-> c, name |-> override[id]]
  ELSE AccountNameByIDLookup(AccountByIDRefresh(c, dir, t), id)

(* --------------------------- AWS CSV reports --------------------------- *)
CSVHeader ==
  <<"RecordType", "LinkedAccountId", "ProductCode", "TotalCost", "CurrencyCode">>

LineItem(id, product, cost) == <<"LinkedLineItem", id, product, cost, "USD">>

\* the report contents the bucket serves; a report is its CSV records
AWSReports ==
  << <<CSVHeader, LineItem("111", "S3", "1")>>,
     <<CSVHeader, LineItem("111", "S3", "1"), LineItem("999", "EC2", "1"),
       LineItem("111", "S3", "1")>>,
     <<CSVHeader, LineItem("999", "EC2", "2"), LineItem("111", "S3", "1"),
       <<"Tax", "111", "S3", "2", "USD">> >>,
     <<CSVHeader, LineItem("999", "EC2", "x")>>,
     <<CSVHeader, <<"LinkedLineItem", "111", "S3">> >> >>

\* the ETag S3 reports for the content AWSReports[i]
ETagOf(i) == <<"e1", "e2", "e3", "e4", "e5">>[i]

\* column position by header name; a name the header lacks reads as 0
ColumnOf(pos, name) == IF name \in DOMAIN pos THEN pos[name] ELSE 0

\* a variant of the header loop that takes the columns in the order of
\* CSVHeader, whatever the first record says
HeaderPositionsFixed(record, i, pos) ==
  [name \in Range(CSVHeader) |->
     (CHOOSE k \in DOMAIN CSVHeader : CSVHeader[k] = name) - 1]

\* readCSV's loop over the fields of the first record
RECURSIVE HeaderPositions(_, _, _)
HeaderPositions(record, i, pos) ==
  IF i > Len(record) THEN pos
  ELSE HeaderPositions(record, i + 1, (record[i] :> (i - 1)) @@ pos)

\* readCSV's record loop; csv.Reader fails on a record whose field count
\* differs from the first record's
RECURSIVE readCSVLoop(_, _, _, _)
readCSVLoop(records, i, pos, elems) ==
  IF i > Len(records) THEN [err |-> FALSE, elems |-> elems]
  ELSE IF Len(records[i]) # Len(records[1]) THEN [err |-> TRUE, elems |-> <<>>]
  ELSE IF ColumnOf(pos, "RecordType") = -1
  THEN readCSVLoop(records, i + 1, HeaderPositions(records[i], 1, pos), elems)
  ELSE IF records[i][ColumnOf(pos, "RecordType") + 1] # "LinkedLineItem"
  THEN readCSVLoop(records, i + 1, pos, elems)
  ELSE
    LET costs == ParseFloat(records[i][ColumnOf(pos, "TotalCost") + 1])
    IN  IF ~costs.ok THEN readCSVLoop(records, i + 1, pos, elems)
        ELSE readCSVLoop(records, i + 1, pos,
               Append(elems,
                 awsBillingElement(
                   records[i][ColumnOf(pos, "LinkedAccountId") + 1],
                   records[i][ColumnOf(pos, "ProductCode") + 1],
                   costs.val,
                   records[i][ColumnOf(pos, "CurrencyCode") + 1])))

readCSV(records) ==
  LET r == readCSVLoop(records, 1, ("RecordType" :> -1), <<>>)
  IN  IF r.err THEN r
      ELSE [err |-> FALSE, elems |-> awsReduceElementsByFunc(r.elems)]

(* ----------------------------- AWS Query ------------------------------- *)
\* prometheus CounterVec.WithLabelValues: the child is created at 0
WithLabelValues(counters, labels) ==
  IF labels \in DOMAIN counters THEN counters ELSE (labels :> 0) @@ counters

\* prometheus Counter.Add
CounterAdd(counters, labels, v) == [counters EXCEPT ![labels] = @ + v]

\* Counter.Add panics on a negative value
CounterAddPanics(v) == v < 0

\* a variant of awsDelta that hands the whole cumulative value to the counter
awsDeltaWholeValue(value, last) == value

\* the delta Query adds for an element
awsDelta(value, last) == value - last

\* metricValues with the key of an element present
withKey(metricValues, key) ==
  IF key \in DOMAIN metricValues THEN metricValues ELSE (key :> 0) @@ metricValues

\* what a pass notes of an element: its key, its cumulative value and the
\* amount handed to Counter.Add
passEntry(key, value, add) == [key |-> key, value |-> value, add |-> add]

\* the labels Query exports an element of the account project with
awsLabels(elem, project) ==
  <<"aws", elem.Currency, project.Name, elem.ServiceName, project.Path,
    project.Owner>>

\* the loop of Query over the reduced elements, on
\* st = [mv, counters, cache, panicked, pass]; pass lists the elements the
\* loop came to
RECURSIVE awsQueryLoop(_, _, _, _, _, _)

\* the body of the loop from m.Add on: labels are the labels of the counter
\* m, st.mv is metricValues with the key present. A panic of Counter.Add
\* ends the loop before metricValues[key] is stored
awsQueryAdd(elems, i, st, labels, key, value, delta, override, dir, t) ==
  IF CounterAddPanics(delta)
  THEN [st EXCEPT !.panicked = TRUE,
                  !.pass = Append(@, passEntry(key, value, delta))]
  ELSE awsQueryLoop(elems, i + 1,
         [st EXCEPT !.mv = [@ EXCEPT ![key] = value],
                    !.counters = CounterAdd(@, labels, delta),
                    !.pass = Append(@, passEntry(key, value, delta))],
         override, dir, t)

\* the body of the loop once AccountByID has answered r
awsQueryElement(elems, i, st, r, key, override, dir, t) ==
  awsQueryAdd(elems, i,
    [st EXCEPT !.cache = r.cache,
               !.counters = WithLabelValues(@, awsLabels(elems[i], r.account)),
               !.mv = withKey(@, key)],
    awsLabels(elems[i], r.account), key, elems[i].Costs,
    awsDelta(elems[i].Costs, withKey(st.mv, key)[key]),
    override, dir, t)

awsQueryLoop(elems, i, st, override, dir, t) ==
  IF i > Len(elems) \/ st.panicked THEN st
  ELSE awsQueryElement(elems, i, st,
         AccountByID(st.cache, override, elems[i].ProjectID, dir, t),
         awsGroupByProjectIDServiceCurrency(elems[i]), override, dir, t)

\* report keys under the prefix "<rootAccountID>-aws-billing-csv-"
ReportKey(root, suffix) == root \o "-aws-billing-csv-" \o suffix
KeySuffixes == <<"2017-01.csv", "2017-02.csv", "2017-10.csv">>

\* strings.Compare on report keys of one prefix
StringsCompare(a, b) ==
  LET rank(k) == CHOOSE n \in DOMAIN KeySuffixes :
                   \E root \in {"111"} : k = ReportKey(root, KeySuffixes[n])
  IN  IF rank(a) < rank(b) THEN -1 ELSE IF rank(a) > rank(b) THEN 1 ELSE 0

\* the listing callback: the object with the greatest key
RECURSIVE SelectBillingObject(_, _, _)
RECURSIVE SelectBillingObjectFirst(_, _, _)

\* a variant of SelectBillingObject that keeps the object listed first
SelectBillingObjectFirst(contents, i, billingObject) ==
  IF i > Len(contents) THEN billingObject
  ELSE SelectBillingObjectFirst(contents, i + 1,
         IF billingObject.nil
         THEN [nil |-> FALSE, Key |-> contents[i].Key, ETag |-> contents[i].ETag]
         ELSE billingObject)

SelectBillingObject(contents, i, billingObject) ==
  IF i > Len(contents) THEN billingObject
  ELSE SelectBillingObject(contents, i + 1,
         IF billingObject.nil \/ StringsCompare(contents[i].Key, billingObject.Key) > 0
         THEN [nil |-> FALSE, Key |-> contents[i].Key, ETag |-> contents[i].ETag]
         ELSE billingObject)

\* ListObjectsPages: the callback runs once per page of the listing, on
\* the billingObject the pages before have left
RECURSIVE ListObjectsPages(_, _)
ListObjectsPages(pages, billingObject) ==
  IF pages = <<>> THEN billingObject
  ELSE ListObjectsPages(Tail(pages),
                        SelectBillingObject(Head(pages), 1, billingObject))

\* the selected object is the one Query parsed last
reportParsed(hash, billingObject) == hash = billingObject.ETag

ReduceIdle ==
  /\ awsIn = <<>> /\ awsOut = NIL /\ gcpIn = <<>> /\ gcpOut = NIL

\* no function is called on its own
NoCall == [fn |-> ""]
NoResult == [done |-> FALSE]
Returned(r) == [done |-> TRUE, r |-> r]
CallIdle == call = NoCall /\ result = NoResult

\* the goroutines Collect runs Query in
Procs == {1, 2}

\* a goroutine that is not in Query
NoQuery == [pc |-> "idle", selected |-> 0, todo |-> <<>>]
PassIdle ==
  ReportsLock = 0 /\ updateLock = 0 /\ queries = [p \in Procs |-> NoQuery]

\* GetReports is not running
NoFetch ==
  [pc |-> "idle", rest |-> <<>>, errAfter |-> FALSE, prefix |-> "",
   objects |-> <<>>, window |-> <<>>]
NoneFrom == [i \in 0..(ReportsPerMonth - 1) |-> ""]
FetchIdle == fetch = NoFetch /\ tasks = {} /\ ReportsFrom = NoneFrom

\* the sources main can start
Sources == {"aws", "gcp"}

\* BillingCollector before Run, with bucket names for the sources in c
RunNew(c) ==
  /\ configured = c
  /\ tested = [s \in Sources |-> "untested"]
  /\ collectors = <<>>
  /\ run = "aws"
  /\ collects = 0
  /\ inFlight = {}
  /\ queried = [s \in Sources |-> 0]
  /\ lastQuery = [s \in Sources |-> ""]
RunIdle == RunNew({})

\* the variables the sources' calls leave alone, at rest
RestIdle == CallIdle /\ PassIdle /\ FetchIdle /\ RunIdle

(* ----------------------- GCP resources metadata ------------------------ *)
resourceMetadata(id, displayName, owner, costCentre, parent) ==
  [id |-> id, displayName |-> displayName, owner |-> owner,
   costCentre |-> costCentre, parent |-> parent]

\* ingest on md = [byProjectID, byID]
ingest(md, e) ==
  IF HasProjectsPrefix(e.id)
  THEN [md EXCEPT !.byProjectID = (e.displayName :> e) @@ @]
  ELSE [md EXCEPT !.byID = (e.id :> e) @@ @]

RECURSIVE ingestAll(_, _)
ingestAll(md, es) ==
  IF es = <<>> THEN md ELSE ingestAll(ingest(md, Head(es)), Tail(es))

\* path: the display names of the ancestors of e, root first
RECURSIVE path(_, _, _)
path(byID, e, depth) ==
  IF e.parent # "" /\ e.parent \in DOMAIN byID
  THEN IF depth = 0 THEN [overflow |-> TRUE, names |-> <<>>]
       ELSE LET parent == byID[e.parent]
                r == path(byID, parent, depth - 1)
            IN  [overflow |-> r.overflow,
                 names |-> Append(r.names, parent.displayName)]
  ELSE [overflow |-> FALSE, names |-> <<>>]

\* update on r = [byProjectID, byID, lastUpdate] at time t; crm is what the
\* resource manager answers: per listing an error flag and the entries
\* ingested before the listing ended
gcpUpdate(r, crm, t) ==
  IF t < r.lastUpdate + Hour THEN [r |-> r, err |-> FALSE, listed |-> FALSE]
  ELSE IF crm.serviceErr THEN [r |-> r, err |-> TRUE, listed |-> FALSE]
  ELSE
    LET md0 == [byProjectID |-> r.byProjectID, byID |-> r.byID]
        md1 == ingestAll(md0, crm.projects.entries)
        md2 == ingestAll(md1, crm.folders.entries)
        md3 == ingestAll(md2, crm.organizations.entries)
        out(md, err) ==
          [r |-> [byProjectID |-> md.byProjectID, byID |-> md.byID,
                  lastUpdate |-> IF err THEN r.lastUpdate ELSE t],
           err |-> err, listed |-> TRUE]
    IN  IF crm.projects.err THEN out(md1, TRUE)
        ELSE IF crm.folders.err THEN out(md2, TRUE)
        ELSE IF crm.organizations.err THEN out(md3, TRUE)
        ELSE out(md3, FALSE)

\* the labels the metadata is configured with
ownerLabel      == "owner"
costCentreLabel == "cost-centre"

\* base32.StdEncoding.DecodeString(strings.ToUpper(strings.ReplaceAll(v, "_", "=")))
Base32Decode(value) ==
  CASE value = "mfwgsy3f" -> [ok |-> TRUE, text |-> "alice"]
    [] OTHER -> [ok |-> FALSE, text |-> ""]

\* strings.ToLower(strings.ToUpper(strings.ReplaceAll(v, "_", "=")))
CostCentreOf(value) ==
  CASE value = "r_d" -> "r=d"
    [] OTHER -> value

\* the resourceMetadata update builds from a listed project
projectEntry(e) ==
  resourceMetadata(
    "projects/" \o e.ProjectNumber,
    e.ProjectId,
    IF ownerLabel \in DOMAIN e.Labels /\ Base32Decode(e.Labels[ownerLabel]).ok
    THEN Base32Decode(e.Labels[ownerLabel]).text ELSE "",
    IF costCentreLabel \in DOMAIN e.Labels
    THEN CostCentreOf(e.Labels[costCentreLabel]) ELSE "",
    e.Parent.Type \o "s/" \o e.Parent.Id)

CRMListing(err, entries) == [err |-> err, entries |-> entries]

\* acme under folder eng under the organization; acme-dev under the organization
CrmTree ==
  [serviceErr |-> FALSE,
   projects |-> CRMListing(FALSE,
     << projectEntry([ProjectNumber |-> "1", ProjectId |-> "acme",
                      Labels |-> ("owner" :> "mfwgsy3f"),
                      Parent |-> [Type |-> "folder", Id |-> "10"]]),
        projectEntry([ProjectNumber |-> "2", ProjectId |-> "acme-dev",
                      Labels |-> ("owner" :> "???"),
                      Parent |-> [Type |-> "organization", Id |-> "100"]]) >>),
   folders |-> CRMListing(FALSE,
     << resourceMetadata("folders/10", "eng", "", "", "organizations/100") >>),
   organizations |-> CRMListing(FALSE,
     << resourceMetadata("organizations/100", "example.com", "", "", "") >>)]

\* acme moved directly under the organization and lost its owner label;
\* acme-dev is gone
CrmMoved ==
  [serviceErr |-> FALSE,
   projects |-> CRMListing(FALSE,
     << projectEntry([ProjectNumber |-> "1", ProjectId |-> "acme",
                      Labels |-> <<>>,
                      Parent |-> [Type |-> "organization", Id |-> "100"]]) >>),
   folders |-> CRMListing(FALSE, <<>>),
   organizations |-> CRMListing(FALSE,
     << resourceMetadata("organizations/100", "example.com", "", "", "") >>)]

\* the folder search fails after the projects were listed
CrmFoldersDown == [CrmMoved EXCEPT !.folders = CRMListing(TRUE, <<>>)]

CrmAnswers == {CrmTree, CrmMoved, CrmFoldersDown}

(* --------------------------- GCP report files -------------------------- *)
Measurement(tokens) == <<[MeasurementID |-> tokens]>>
DevSQL == Measurement(<<"com.google.cloud", "/", "services", "/", "dev-sql">>)

\* the JSON arrays the bucket serves
GCPReports ==
  << << gcpBillingElement("acme", "", DevSQL, "1", "USD", 0) >>,
     << gcpBillingElement("acme", "", DevSQL, "1", "USD", 0),
        gcpBillingElement("acme-dev", "", <<>>, "1", "USD", 0),
        gcpBillingElement("acme", "", DevSQL, "1", "USD", 0) >>,
     << gcpBillingElement("acme", "", DevSQL, "1", "USD", 0),
        gcpBillingElement("acme-dev", "", <<>>, "2", "USD", 0) >> >>

\* the MD5 the bucket reports for the content GCPReports[i]
MD5Of(i) == <<"m1", "m2", "m3">>[i]

\* strconv.Atoi of the two characters before ".json"
Atoi(s) ==
  CASE s = "00" -> [ok |-> TRUE, val |-> 0]
    [] s = "01" -> [ok |-> TRUE, val |-> 1]
    [] s = "02" -> [ok |-> TRUE, val |-> 2]
    [] s = "32" -> [ok |-> TRUE, val |-> 32]
    [] s = "33" -> [ok |-> TRUE, val |-> 33]
    [] OTHER    -> [ok |-> FALSE, val |-> 0]

\* an object of the bucket: its name is prefix \o day \o ".json"; fault says
\* how fetching it ends ("" = it is read and decoded)
ObjectAttrs(prefix, day, i, fault) ==
  [Name |-> prefix \o day \o ".json", day |-> day, MD5 |-> MD5Of(i),
   body |-> i, fault |-> fault]

\* json.Decoder.Decode into a slice of element pointers: the elements the
\* slice already holds are reused, and only the fields the JSON gives
\* (projectId, projectName, measurements, cost.amount, cost.currency) are set
DecodeInto(old, raw) ==
  [k \in DOMAIN raw |->
     IF k <= Len(old)
     THEN [old[k] EXCEPT !.ProjectID = raw[k].ProjectID,
                         !.ProjectName = raw[k].ProjectName,
                         !.Measurements = raw[k].Measurements,
                         !.Cost.Amount = raw[k].Cost.Amount,
                         !.Cost.Currency = raw[k].Cost.Currency]
     ELSE raw[k]]

EmptyReport == [Elements |-> <<>>, Hash |-> ""]

\* getReportFile on the window of reports, for an object whose number, where
\* Atoi reads one, is a day of the month
getReportFile(window, objectAttrs) ==
  LET n == Atoi(objectAttrs.day)
      i == n.val - 1
  IN  IF ~n.ok THEN window
      ELSE IF window[i].Hash = objectAttrs.MD5 THEN window
      ELSE IF objectAttrs.fault \in {"read", "syntax"} THEN window
      ELSE LET decoded == DecodeInto(window[i].Elements,
                                     GCPReports[objectAttrs.body])
           IN  IF objectAttrs.fault = "type"
               THEN [window EXCEPT ![i].Elements = decoded]
               ELSE
               [window EXCEPT ![i] =
                  [Elements |-> reduceElementsByProjectIDServiceCurrency(decoded),
                   Hash |-> objectAttrs.MD5]]

RECURSIVE getReportFiles(_, _)
getReportFiles(window, objects) ==
  IF objects = <<>> THEN window
  ELSE getReportFiles(getReportFile(window, Head(objects)), Tail(objects))

(* --------------------------- the GCP source ---------------------------- *)
ReportPrefix == "prefix"

\* fmt's %d on one decimal digit
Digit(d) == <<"0", "1", "2", "3", "4", "5", "6", "7", "8", "9">>[d + 1]

\* fmt's %04d and %02d on the years 0..9999 and the numbers 0..99
Fmt04d(year) ==
  Digit((year \div 1000) % 10) \o Digit((year \div 100) % 10)
    \o Digit((year \div 10) % 10) \o Digit(year % 10)
Fmt02d(month) == Digit((month \div 10) % 10) \o Digit(month % 10)

January  == 1
December == 12

\* a variant of lastMonthsYearOf that stays in the current year
lastMonthsYearSame(currentYear, currentMonth) == currentYear

\* lastMonth and lastMonthsYear of filterLastTwoMonths
lastMonthOf(currentMonth) ==
  IF currentMonth = January THEN December ELSE currentMonth - 1
lastMonthsYearOf(currentYear, currentMonth) ==
  IF currentMonth = January THEN currentYear - 1 ELSE currentYear

\* filterLastTwoMonths of a source with this ReportPrefix at the date
filterLastTwoMonthsOf(reportPrefix, date) ==
  << reportPrefix \o "-" \o Fmt04d(date.year) \o "-"
       \o Fmt02d(date.month) \o "-",
     reportPrefix \o "-" \o Fmt04d(lastMonthsYearOf(date.year, date.month))
       \o "-" \o Fmt02d(lastMonthOf(date.month)) \o "-" >>

filterLastTwoMonths(date) == filterLastTwoMonthsOf(ReportPrefix, date)

\* NewGCPBillingBucket, at the calendar month the process starts in
GCPNew ==
  /\ today = [year |-> 2016, month |-> December]
  /\ Reports = [i \in 0..(ReportsPerMonth - 1) |-> EmptyReport]
  /\ ReportsMonthPrefix = ""
  /\ gcpMetricValues = <<>>
  /\ gcpMetricMonthlyCosts = <<>>
  /\ metadataByProjectID = <<>>
  /\ metadataByID = <<>>
  /\ lastUpdate = ZeroTime
  /\ gcpListings = <<>>
  /\ gcpRet = [op |-> "", err |-> "", pass |-> <<>>]

\* what listing one prefix gives: kind "err" (the first Next fails), "empty"
\* or "objects"; errAfter: the listing fails after the objects were handed out
ListingOutcomes(prefix) ==
  {[kind |-> "err", objects |-> <<>>, errAfter |-> FALSE],
   [kind |-> "empty", objects |-> <<>>, errAfter |-> FALSE]}
  \cup {[kind |-> "objects", objects |-> <<ObjectAttrs(prefix, "01", i, "")>>,
         errAfter |-> e] : i \in DOMAIN GCPReports, e \in BOOLEAN}
  \cup {[kind |-> "objects", objects |-> <<ObjectAttrs(prefix, "01", 2, f)>>,
         errAfter |-> FALSE] : f \in {"read", "syntax", "type"}}
  \cup {[kind |-> "objects",
         objects |-> <<ObjectAttrs(prefix, "01", 1, ""),
                       ObjectAttrs(prefix, "xx", 2, ""),
                       ObjectAttrs(prefix, "02", 3, "")>>,
         errAfter |-> FALSE]}

\* GetReports on g = [Reports, ReportsMonthPrefix]; cur and last are what the
\* listings of the two prefixes give
GetReports(g, date, cur, last) ==
  LET prefixes == filterLastTwoMonths(date)
      found    == IF cur.kind # "empty" THEN cur ELSE last
      prefix   == IF cur.kind # "empty" THEN prefixes[1] ELSE prefixes[2]
  IN  IF found.kind = "err" THEN [g |-> g, err |-> "Failed to list objects"]
      ELSE IF found.kind = "empty" THEN [g |-> g, err |-> ""]
      ELSE
        LET cleared == IF g.ReportsMonthPrefix # prefix
                       THEN [i \in 0..(ReportsPerMonth - 1) |-> EmptyReport]
                       ELSE g.Reports
        IN  [g |-> [Reports |-> getReportFiles(cleared, found.objects),
                    ReportsMonthPrefix |-> prefix],
             err |-> IF found.errAfter THEN "Failed to list objects" ELSE ""]

\* all elements of the window, slot by slot
RECURSIVE gatherElements(_, _)
gatherElements(window, i) ==
  IF i >= ReportsPerMonth THEN <<>>
  ELSE window[i].Elements \o gatherElements(window, i + 1)

\* a variant of gcpCostsFalling for which no costs are falling
gcpCostsNeverFalling(delta) == FALSE

\* OldQuery skips an element whose costs are falling
gcpCostsFalling(delta) == delta < 0

\* the labels OldQuery exports an element with
gcpLabels(elem, byProjectID, byID) ==
  IF elem.ProjectID \in DOMAIN byProjectID
  THEN <<"gcp", elem.Cost.Currency, elem.ProjectID, GetServiceName(elem),
         Join(path(byID, byProjectID[elem.ProjectID], MaxDepth).names, "/"),
         byProjectID[elem.ProjectID].owner>>
  ELSE <<"gcp", elem.Cost.Currency, elem.ProjectID, GetServiceName(elem),
         "", "">>

\* the loop of OldQuery over the reduced elements, on
\* st = [mv, counters, pass]; pass lists the elements of the loop, with the
\* amount 0 where Counter.Add is not called
RECURSIVE gcpQueryLoop(_, _, _, _, _)

\* a variant of gcpQueryAdd that does not keep the value it has exported
gcpQueryAddForgetting(elems, i, st, labels, key, value, delta, byProjectID, byID) ==
  IF gcpCostsFalling(delta)
  THEN gcpQueryLoop(elems, i + 1,
         [st EXCEPT !.pass = Append(@, passEntry(key, value, 0))],
         byProjectID, byID)
  ELSE gcpQueryLoop(elems, i + 1,
         [st EXCEPT !.counters = CounterAdd(@, labels, delta),
                    !.pass = Append(@, passEntry(key, value, delta))],
         byProjectID, byID)

\* the body of the loop from the delta on
gcpQueryAdd(elems, i, st, labels, key, value, delta, byProjectID, byID) ==
  IF gcpCostsFalling(delta)
  THEN gcpQueryLoop(elems, i + 1,
         [st EXCEPT !.pass = Append(@, passEntry(key, value, 0))],
         byProjectID, byID)
  ELSE gcpQueryLoop(elems, i + 1,
         [st EXCEPT !.mv = [@ EXCEPT ![key] = value],
                    !.counters = CounterAdd(@, labels, delta),
                    !.pass = Append(@, passEntry(key, value, delta))],
         byProjectID, byID)

\* the body of the loop for the element with this key and value
gcpQueryElement(elems, i, st, labels, key, value, byProjectID, byID) ==
  gcpQueryAdd(elems, i,
    [st EXCEPT !.counters = WithLabelValues(@, labels),
               !.mv = withKey(@, key)],
    labels, key, value, value - withKey(st.mv, key)[key], byProjectID, byID)

gcpQueryLoop(elems, i, st, byProjectID, byID) ==
  IF i > Len(elems) THEN st
  ELSE gcpQueryElement(elems, i, st, gcpLabels(elems[i], byProjectID, byID),
         gcpGroupByProjectIDServiceCurrency(elems[i]), GetValue(elems[i]),
         byProjectID, byID)

\* the elements OldQuery reconciles for a window
gcpPassElements(window) ==
  reduceElementsByProjectIDServiceCurrency(gatherElements(window, 0))

\* the resource manager is down
CrmDown == [CrmTree EXCEPT !.serviceErr = TRUE]

gcpMetadata ==
  [byProjectID |-> metadataByProjectID, byID |-> metadataByID,
   lastUpdate |-> lastUpdate]

gcpRefreshDue == ~(now < lastUpdate + Hour)

\* the listings kept for an update that answered u
gcpListed(u) ==
  IF u.listed
  THEN LET l == Append(gcpListings, [at |-> now, ok |-> ~u.err])
       IN  IF Len(l) > 2 THEN Tail(l) ELSE l
  ELSE gcpListings

\* what a call of the GCP source returned
gcpReturn(op, err, pass) == [op |-> op, err |-> err, pass |-> pass]

\* update has answered u
GCPUpdated(u) ==
  /\ metadataByProjectID' = u.r.byProjectID
  /\ metadataByID' = u.r.byID
  /\ lastUpdate' = u.r.lastUpdate
  /\ gcpListings' = gcpListed(u)

\* a call of resourcesMetadata.update
GCPUpdate ==
  /\ source = "gcp"
  /\ \E crm \in IF gcpRefreshDue THEN CrmAnswers \cup {CrmDown} ELSE {CrmDown} :
       /\ GCPUpdated(gcpUpdate(gcpMetadata, crm, now))
       /\ gcpRet' = gcpReturn("update",
                      IF gcpUpdate(gcpMetadata, crm, now).err THEN "update"
                      ELSE "", <<>>)
  /\ UNCHANGED <<today, Reports, ReportsMonthPrefix, gcpMetricValues,
                 gcpMetricMonthlyCosts>>
  /\ UNCHANGED <<reduceVars, restVars, source, now, awsVars>>

\* OldQuery at its end: the loop has left st
GCPOldQueryReconciled(st) ==
  /\ gcpMetricValues' = st.mv
  /\ gcpMetricMonthlyCosts' = st.counters
  /\ gcpRet' = gcpReturn("OldQuery", "", st.pass)

\* OldQuery once update has answered u, on the window it has fetched
GCPOldQueryReconcile(window, u) ==
  /\ GCPUpdated(u)
  /\ GCPOldQueryReconciled(
       gcpQueryLoop(gcpPassElements(window), 1,
         [mv |-> gcpMetricValues, counters |-> gcpMetricMonthlyCosts,
          pass |-> <<>>],
         u.r.byProjectID, u.r.byID))

\* OldQuery once GetReports has answered r
GCPOldQueryFetched(r) ==
  /\ Reports' = r.g.Reports
  /\ ReportsMonthPrefix' = r.g.ReportsMonthPrefix
  /\ IF r.err # ""
     THEN /\ gcpRet' = gcpReturn("OldQuery", r.err, <<>>)
          /\ UNCHANGED <<gcpMetricValues, gcpMetricMonthlyCosts,
                         metadataByProjectID, metadataByID, lastUpdate,
                         gcpListings>>
     ELSE \E crm \in IF gcpRefreshDue THEN {CrmTree, CrmDown} ELSE {CrmDown} :
            GCPOldQueryReconcile(r.g.Reports, gcpUpdate(gcpMetadata, crm, now))

\* OldQuery. The listing of the previous month's prefix is made only when
\* the current one is empty
GCPOldQuery ==
  /\ source = "gcp"
  /\ \E cur \in ListingOutcomes(filterLastTwoMonths(today)[1]) :
     \E last \in IF cur.kind = "empty"
                  THEN ListingOutcomes(filterLastTwoMonths(today)[2])
                  ELSE {cur} :
       GCPOldQueryFetched(
         GetReports([Reports |-> Reports,
                     ReportsMonthPrefix |-> ReportsMonthPrefix],
                    today, cur, last))
  /\ UNCHANGED <<today, reduceVars, restVars, source, now, awsVars>>

\* a row of the BigQuery result: project.id, service.description, currency
\* and SUM(cost)
BigQueryRow(project, service, currency, cost) ==
  [project |-> project, service |-> service, currency |-> currency,
   cost |-> cost]

\* what BigQuery answers: NewClient or Read fails, or the iterator hands out
\* rows and ends with iterator.Done or with an error
BigQueryAnswers ==
  {[err |-> e, rows |-> <<>>] : e \in {"client", "read", ""}}
  \cup {[err |-> e, rows |-> <<BigQueryRow("acme", "dev-sql", "USD", 1)>>] :
          e \in {"", "next"}}
  \cup {[err |-> "", rows |-> <<BigQueryRow("acme-dev", "misc", "USD", 2),
                                BigQueryRow("acme", "dev-sql", "USD", 1)>>]}

\* the key and the cumulative cost of a row, and the amount Query hands to
\* Counter.Add for it: Query prints the row and calls neither
bigQueryPass(rows) ==
  [i \in DOMAIN rows |->
     passEntry(gcpGroupByProjectIDServiceCurrency(
                 gcpBillingElement(rows[i].project, rows[i].service, <<>>, "",
                                   rows[i].currency, rows[i].cost)),
               rows[i].cost, 0)]

\* GCPBilling.Query, which Collect calls: the rows of the BigQuery export are
\* read and printed
GCPQuery ==
  /\ source = "gcp"
  /\ \E answer \in BigQueryAnswers :
       gcpRet' = gcpReturn("Query", answer.err, bigQueryPass(answer.rows))
  /\ UNCHANGED <<today, Reports, ReportsMonthPrefix, gcpMetricValues,
                 gcpMetricMonthlyCosts, metadataByProjectID, metadataByID,
                 lastUpdate, gcpListings>>
  /\ UNCHANGED <<reduceVars, restVars, source, now, awsVars>>

\* the calendar month changes
NextMonth ==
  /\ source = "gcp"
  /\ today.year = 2016
  /\ today' = IF today.month = December
              THEN [year |-> today.year + 1, month |-> January]
              ELSE [today EXCEPT !.month = @ + 1]
  /\ UNCHANGED <<reduceVars, restVars, source, now, awsVars>>
  /\ UNCHANGED <<Reports, ReportsMonthPrefix, gcpMetricValues,
                 gcpMetricMonthlyCosts, metadataByProjectID, metadataByID,
                 lastUpdate, gcpListings, gcpRet>>

(* ------------------ the organizations API's answers -------------------- *)
NoParents == [err |-> FALSE, ids |-> <<>>]
ParentIs(id) == [err |-> FALSE, ids |-> <<id>>]
Failing == [err |-> TRUE, ids |-> <<>>]
OrgIDs == {"111", "999", "ou-1", "r-1"}

\* 111 (named legacy-name, owner alice) under ou-1 under the root
DirTree ==
  [listErr |-> FALSE,
   accounts |-> << [Id |-> "111", Name |-> "legacy-name",
                    Tags |-> [err |-> FALSE,
                              tags |-> <<[Key |-> "owner", Value |-> "alice"]>>]] >>,
   parents |-> [id \in OrgIDs |->
                  CASE id = "111" -> ParentIs("ou-1")
                    [] id = "ou-1" -> ParentIs("r-1")
                    [] OTHER -> NoParents],
   ous |-> [id \in {"ou-1"} |-> [err |-> FALSE, name |-> "team"]],
   org |-> [err |-> FALSE, email |-> <<"root", "@", "example.com">>]]

\* 111 renamed by its project-id tag, 999 with failing tag and parent calls
DirFlat ==
  [listErr |-> FALSE,
   accounts |-> << [Id |-> "111", Name |-> "legacy-name",
                    Tags |-> [err |-> FALSE,
                              tags |-> <<[Key |-> "project-id", Value |-> "web"]>>]],
                   [Id |-> "999", Name |-> "prod",
                    Tags |-> [err |-> TRUE, tags |-> <<>>]] >>,
   parents |-> [id \in OrgIDs |->
                  CASE id = "111" -> ParentIs("r-1")
                    [] id = "999" -> Failing
                    [] OTHER -> NoParents],
   ous |-> [id \in {"ou-1"} |-> [err |-> TRUE, name |-> ""]],
   org |-> [err |-> FALSE, email |-> <<"root", "@", "example.com">>]]

\* the listing fails
DirDown == [DirTree EXCEPT !.listErr = TRUE]

Directories == {DirTree, DirFlat, DirDown}

\* the manual account mappings NewAWSBilling is given
OverrideConfigs == {<<>>, ("111" :> "acme-dev")}

(* --------------------------- the AWS source ---------------------------- *)
\* what a call returned: the operation, its error and, for Query, whether
\* the report was downloaded and parsed, the ETag of the selected object and
\* the reconciliation made; for a lookup, the ID asked for and the account
awsReturn(op, err, downloaded, parsed, selected, pass, id, account) ==
  [op |-> op, err |-> err, downloaded |-> downloaded, parsed |-> parsed,
   selected |-> selected, pass |-> pass, id |-> id, account |-> account]

\* NewAWSBilling
AWSNew(root, accountMap) ==
  /\ rootAccountID = root
  /\ accountNameByIDOverride = accountMap
  /\ accountNameByIDAPI = [nil |-> TRUE, m |-> <<>>]
  /\ accountNameByIDAPILastUpdate = ZeroTime
  /\ ReportHash = ""
  /\ awsMetricValues = <<>>
  /\ awsMetricMonthlyCosts = <<>>
  /\ awsPanicked = FALSE
  /\ awsListings = <<>>
  /\ awsRet = awsReturn("", "", FALSE, FALSE, "", <<>>, "", Account("", ""))

awsCache ==
  [api |-> accountNameByIDAPI, lastUpdate |-> accountNameByIDAPILastUpdate,
   listings |-> awsListings]

awsRefreshDue ==
  accountNameByIDAPI.nil \/ now - Hour > accountNameByIDAPILastUpdate

\* a lookup has answered with the cache and the account
AWSLookupReturns(op, id, cache, account) ==
  /\ accountNameByIDAPI' = cache.api
  /\ accountNameByIDAPILastUpdate' = cache.lastUpdate
  /\ awsListings' = cache.listings
  /\ awsRet' = awsReturn(op, "", FALSE, FALSE, "", <<>>, id, account)

AWSAccountByIDReturns(id, r) ==
  AWSLookupReturns("AccountByID", id, r.cache, r.account)

AWSAccountNameByIDReturns(id, r) ==
  AWSLookupReturns("AccountNameByID", id, r.cache, Account(id, r.name))

\* a call of AccountByID from outside Query
AWSAccountByID ==
  /\ source = "aws"
  /\ ~awsPanicked
  /\ \E id \in AccountIDs :
     \E dir \in IF awsRefreshDue THEN Directories ELSE {DirDown} :
       AWSAccountByIDReturns(id,
         AccountByID(awsCache, accountNameByIDOverride, id, dir, now))
  /\ UNCHANGED <<rootAccountID, accountNameByIDOverride, ReportHash,
                 awsMetricValues, awsMetricMonthlyCosts, awsPanicked>>
  /\ UNCHANGED <<reduceVars, restVars, source, now, gcpVars>>

\* a call of AccountNameByID, the lookup of the earlier revision
AWSAccountNameByID ==
  /\ source = "aws"
  /\ ~awsPanicked
  /\ \E id \in AccountIDs :
     \E dir \in IF awsRefreshDue /\ id \notin DOMAIN accountNameByIDOverride
                 THEN Directories ELSE {DirDown} :
       AWSAccountNameByIDReturns(id,
         AccountNameByID(awsCache, accountNameByIDOverride, id, dir, now))
  /\ UNCHANGED <<rootAccountID, accountNameByIDOverride, ReportHash,
                 awsMetricValues, awsMetricMonthlyCosts, awsPanicked>>
  /\ UNCHANGED <<reduceVars, restVars, source, now, gcpVars>>

\* a variant of AWSQueryReturns that forgets the last costs when Query fails
AWSQueryReturnsForgetting(err, downloaded, parsed, selected) ==
  /\ awsRet' = awsReturn("Query", err, downloaded, parsed, selected, <<>>, "",
                         Account("", ""))
  /\ awsMetricValues' = IF err = "" THEN awsMetricValues ELSE <<>>
  /\ UNCHANGED <<accountNameByIDAPI, accountNameByIDAPILastUpdate, ReportHash,
                 awsMetricMonthlyCosts, awsPanicked, awsListings>>

\* Query returns before anything is written; selected is the ETag of the
\* object the listing selected, "" when the call ended before
AWSQueryReturns(err, downloaded, parsed, selected) ==
  /\ awsRet' = awsReturn("Query", err, downloaded, parsed, selected, <<>>, "",
                         Account("", ""))
  /\ UNCHANGED <<accountNameByIDAPI, accountNameByIDAPILastUpdate, ReportHash,
                 awsMetricValues, awsMetricMonthlyCosts, awsPanicked,
                 awsListings>>

\* the objects a listing under the prefix returns, in listing order
AWSListings(root) ==
  LET old == [Key |-> ReportKey(root, KeySuffixes[1]), ETag |-> ETagOf(1)]
  IN  {<<>>}
      \cup {<<[Key |-> ReportKey(root, KeySuffixes[1]), ETag |-> ETagOf(i)]>> :
               i \in DOMAIN AWSReports}
      \cup {<<old, [Key |-> ReportKey(root, KeySuffixes[2]), ETag |-> ETagOf(2)]>>,
            <<[Key |-> ReportKey(root, KeySuffixes[2]), ETag |-> ETagOf(3)], old>>}

\* the contents GetObject may serve for an object listed with etag: the
\* listed content, or another one when the object was overwritten since
AWSServed(etag) ==
  LET i == CHOOSE k \in DOMAIN AWSReports : ETagOf(k) = etag
  IN  {i, (i % Len(AWSReports)) + 1}

\* Query at its end: the loop has left st
AWSQueryReconciled(billingObject, st) ==
  /\ awsMetricValues' = st.mv
  /\ awsMetricMonthlyCosts' = st.counters
  /\ accountNameByIDAPI' = st.cache.api
  /\ accountNameByIDAPILastUpdate' = st.cache.lastUpdate
  /\ awsListings' = st.cache.listings
  /\ awsPanicked' = st.panicked
  /\ ReportHash' = IF st.panicked THEN ReportHash ELSE billingObject.ETag
  /\ awsRet' = awsReturn("Query", IF st.panicked THEN "panic" ELSE "",
                         TRUE, TRUE, billingObject.ETag, st.pass, "",
                         Account("", ""))

\* the part of Query under ReportsLock, once the report is parsed
AWSQueryReconcile(billingObject, billingElements) ==
  \E dir \in IF awsRefreshDue /\ billingElements # <<>>
              THEN Directories ELSE {DirDown} :
    AWSQueryReconciled(billingObject,
      awsQueryLoop(billingElements, 1,
        [mv |-> awsMetricValues, counters |-> awsMetricMonthlyCosts,
         cache |-> awsCache, panicked |-> FALSE, pass |-> <<>>],
        accountNameByIDOverride, dir, now))

\* the part of Query under ReportsLock, once readCSV has answered r
AWSQueryParsed(billingObject, r) ==
  IF r.err
  THEN AWSQueryReturns("Error parsing CSV billing report", TRUE, FALSE,
                       billingObject.ETag)
  ELSE \/ AWSQueryReturns("close", TRUE, TRUE, billingObject.ETag)
       \/ AWSQueryReconcile(billingObject, r.elems)

\* the part of Query under ReportsLock, from GetObject on
AWSQueryDownload(billingObject) ==
  \/ AWSQueryReturns("Error download billing report", FALSE, FALSE,
                     billingObject.ETag)
  \/ \E j \in AWSServed(billingObject.ETag) :
       AWSQueryParsed(billingObject, readCSV(AWSReports[j]))

\* a variant of AWSQueryLocked that does not compare the ETag with ReportHash
AWSQueryLockedNoDedup(billingObject) == AWSQueryDownload(billingObject)

\* the part of Query under ReportsLock
AWSQueryLocked(billingObject) ==
  IF reportParsed(ReportHash, billingObject)
  THEN AWSQueryReturns("", FALSE, FALSE, billingObject.ETag)
  ELSE AWSQueryDownload(billingObject)

\* Query once the listing has selected billingObject
AWSQuerySelected(billingObject) ==
  IF billingObject.nil
  THEN AWSQueryReturns("No billing report", FALSE, FALSE, "")
  ELSE AWSQueryLocked(billingObject)

\* a call of Query; the root account ID is the configured one or the one
\* detected through the API
AWSQuery ==
  /\ source = "aws"
  /\ ~awsPanicked
  /\ UNCHANGED <<rootAccountID, accountNameByIDOverride>>
  /\ UNCHANGED <<reduceVars, restVars, source, now, gcpVars>>
  /\ \/ AWSQueryReturns("session", FALSE, FALSE, "")
     \/ /\ rootAccountID = ""
        /\ AWSQueryReturns("Error detecting root account ID", FALSE, FALSE, "")
     \/ AWSQueryReturns("Error listing AWS bucket", FALSE, FALSE, "")
     \/ \E contents \in AWSListings(IF rootAccountID # "" THEN rootAccountID
                                     ELSE "111") :
          AWSQuerySelected(
            SelectBillingObject(contents, 1,
              [nil |-> TRUE, Key |-> "", ETag |-> ""]))

\* time passes
Tick ==
  /\ now < MaxClock
  /\ now' = now + 1
  /\ UNCHANGED <<reduceVars, restVars, source, awsVars, gcpVars>>

InitAWS ==
  /\ source = "aws"
  /\ ReduceIdle
  /\ RestIdle
  /\ GCPNew
  /\ now = Hour + 1
  /\ \E accountMap \in OverrideConfigs : AWSNew("", accountMap)

(* ------------------------ the GCP state machine ----------------------- *)
InitGCP ==
  /\ source = "gcp"
  /\ ReduceIdle
  /\ RestIdle
  /\ now = Hour + 1
  /\ AWSNew("", <<>>)
  /\ GCPNew

(* --------------------- an exporter for either source ------------------- *)
InitSource == InitAWS \/ InitGCP

\* the scrapes of an exporter
NextQuery ==
  \/ AWSQuery
  \/ GCPQuery
  \/ GCPOldQuery
  \/ NextMonth

SpecQuery == InitSource /\ [][NextQuery]_vars

\* the calls of the directory caches
NextDirectory ==
  \/ AWSAccountByID
  \/ AWSAccountNameByID
  \/ GCPUpdate
  \/ Tick

SpecDirectory == InitSource /\ [][NextDirectory]_vars

(* ------------------- the reducers as a state machine ------------------- *)
InitReduce ==
  /\ source = ""
  /\ RestIdle
  /\ now = Hour + 1
  /\ AWSNew("", <<>>)
  /\ GCPNew
  /\ awsOut = NIL
  /\ gcpOut = NIL
  /\ \/ awsIn \in SeqsUpTo(AWSElements, MaxItems) /\ gcpIn = <<>>
     \/ awsIn = <<>> /\ gcpIn \in SeqsUpTo(GCPElements, MaxItems)

\* readCSV's final call of the AWS reducer
AWSReduce ==
  /\ awsOut = NIL
  /\ gcpIn = <<>>
  /\ awsOut' = awsReduceElementsByFunc(awsIn)
  /\ UNCHANGED <<awsIn, gcpIn, gcpOut, source, now, awsVars, gcpVars, restVars>>

\* getReportFile's / OldQuery's call of the GCP reducer
GCPReduce ==
  /\ gcpOut = NIL
  /\ awsIn = <<>>
  /\ gcpOut' = reduceElementsByProjectIDServiceCurrency(gcpIn)
  /\ UNCHANGED <<awsIn, awsOut, gcpIn, source, now, awsVars, gcpVars, restVars>>

NextReduce ==
  \/ AWSReduce
  \/ GCPReduce

SpecReduce == InitReduce /\ [][NextReduce]_vars


(* ---------------- the ancestor walks as a state machine ---------------- *)
\* what ListParents may answer for one child: no parent, an error, one
\* parent (an organizational unit, the root or an id of neither kind)
WalkParents ==
  {NoParents, Failing, ParentIs("ou-1"), ParentIs("ou-2"), ParentIs("r-1"),
   ParentIs("x-1")}

\* the organizations API with the parent relation parents, in which the
\* organizational unit ou-2 can be described or not
WalkDirectory(parents, ou2Err) ==
  [listErr |-> FALSE, accounts |-> <<>>, parents |-> parents,
   ous |-> [id \in {"ou-1", "ou-2"} |->
              [err |-> (id = "ou-2" /\ ou2Err), name |-> id]],
   org |-> [err |-> FALSE, email |-> <<"root", "@", "example.com">>]]

WalkDirectories ==
  {WalkDirectory(parents, ou2Err) :
     parents \in [{"111", "ou-1", "ou-2"} -> WalkParents], ou2Err \in BOOLEAN}

\* ListParents answers with two parents
TwoParents == [err |-> FALSE, ids |-> <<"ou-1", "ou-2">>]

\* the organizations API during a refresh that lists the accounts 111 and
\* 999: every call made for an account or one of its ancestors can fail
RefreshDirectory(parents, tagsErr, ou2Err, orgErr) ==
  [listErr |-> FALSE,
   accounts |-> << [Id |-> "111", Name |-> "legacy-name",
                    Tags |-> [err |-> tagsErr,
                              tags |-> <<[Key |-> "project-id", Value |-> "web"],
                                         [Key |-> "owner", Value |-> "alice"]>>]],
                   [Id |-> "999", Name |-> "prod",
                    Tags |-> [err |-> FALSE, tags |-> <<>>]] >>,
   parents |-> parents,
   ous |-> [id \in {"ou-1", "ou-2"} |->
              [err |-> (id = "ou-2" /\ ou2Err), name |-> id]],
   org |-> [err |-> orgErr, email |-> <<"root", "@", "example.com">>]]

\* the parent relations of a refresh: a tree of at most three levels
RefreshParents ==
  {p \in [{"111", "999", "ou-1", "ou-2"} -> WalkParents \cup {TwoParents}] :
     /\ p["ou-1"] # ParentIs("ou-1")
     /\ p["ou-2"] \notin {ParentIs("ou-1"), ParentIs("ou-2")}}

RefreshDirectories ==
  {RefreshDirectory(parents, tagsErr, ou2Err, orgErr) :
     parents \in RefreshParents, tagsErr \in BOOLEAN, ou2Err \in BOOLEAN,
     orgErr \in BOOLEAN}

\* the folders and the organization update may have ingested: each folder
\* names as its parent nothing, a folder, the organization or a folder that
\* was never ingested
WalkFolderParents ==
  {"", "folders/10", "folders/20", "organizations/100", "folders/99"}

WalkMetadata(p10, p20) ==
  ("folders/10" :> resourceMetadata("folders/10", "eng", "", "", p10))
  @@ ("folders/20" :> resourceMetadata("folders/20", "ops", "", "", p20))
  @@ ("organizations/100" :>
        resourceMetadata("organizations/100", "example.com", "", "", ""))

WalkMetadatas ==
  {WalkMetadata(p10, p20) : p10 \in WalkFolderParents, p20 \in WalkFolderParents}

\* the accounts getAccountPath is called for: a listed account, and the
\* organization as the walk comes to it
WalkAccounts ==
  {Account("111", "web"),
   [Account("r-1", "example.com") EXCEPT !.Type = AccountTypeOrganization]}

InitWalk ==
  /\ source = ""
  /\ now = Hour + 1
  /\ ReduceIdle
  /\ AWSNew("", <<>>)
  /\ GCPNew
  /\ result = NoResult
  /\ PassIdle
  /\ FetchIdle
  /\ RunIdle
  /\ \/ \E dir \in WalkDirectories : \E ac \in WalkAccounts :
          call = [fn |-> "getAccountPath", ac |-> ac, dir |-> dir]
     \/ \E byID \in WalkMetadatas : \E parent \in WalkFolderParents :
          call = [fn |-> "path", byID |-> byID,
                  e |-> resourceMetadata("projects/1", "acme", "", "", parent)]
     \/ \E byID \in WalkMetadatas :
          call = [fn |-> "path", byID |-> byID, e |-> byID["organizations/100"]]
     \/ \E dir \in RefreshDirectories :
          call = [fn |-> "getAccountNameByIDAPI", dir |-> dir]

\* getAccountPath for a listed account, as getAccountNameByIDAPI calls it
WalkAccountPath ==
  /\ call.fn = "getAccountPath"
  /\ ~result.done
  /\ result' = Returned(getAccountPath(call.ac, <<>>, call.dir, MaxDepth))
  /\ UNCHANGED <<call, coreVars, passVars, fetchVars, runVars>>

\* path for a project, as OldQuery calls it
WalkPath ==
  /\ call.fn = "path"
  /\ ~result.done
  /\ result' = Returned(path(call.byID, call.e, MaxDepth))
  /\ UNCHANGED <<call, coreVars, passVars, fetchVars, runVars>>

\* getAccountNameByIDAPI, as the refresh of AccountByID calls it
WalkRefresh ==
  /\ call.fn = "getAccountNameByIDAPI"
  /\ ~result.done
  /\ result' = Returned(getAccountNameByIDAPI(call.dir))
  /\ UNCHANGED <<call, coreVars, passVars, fetchVars, runVars>>

NextWalk ==
  \/ WalkAccountPath
  \/ WalkPath
  \/ WalkRefresh

SpecWalk == InitWalk /\ [][NextWalk]_vars

(* --------------- concurrent calls of Query, step by step --------------- *)
\* a variant of MutexFree for a Lock that never waits
MutexNeverHeld(lock) == TRUE

\* sync.Mutex.Lock returns once the mutex is free
MutexFree(lock) == lock = 0

\* the state of goroutine p's call becomes q
at(p, q) == queries' = [queries EXCEPT ![p] = q]

\* a variant of passReturn without the deferred Unlock
passReturnLocked(p) == ReportsLock' = ReportsLock /\ at(p, NoQuery)

\* the deferred ReportsLock.Unlock at the return of p's call
passReturn(p) == ReportsLock' = 0 /\ at(p, NoQuery)

\* AWSBilling.Query up to ReportsLock.Lock: the listing selects an object
AWSPassList(p) ==
  /\ source = "aws" /\ ~awsPanicked
  /\ queries[p].pc = "idle"
  /\ \E j \in DOMAIN AWSReports :
       at(p, [pc |-> "listed", selected |-> j, todo |-> <<>>])
  /\ UNCHANGED <<ReportsLock, coreVars, callVars, fetchVars, runVars,
                 updateLock>>

\* ReportsLock.Lock
AWSPassLock(p) ==
  /\ source = "aws" /\ ~awsPanicked
  /\ queries[p].pc = "listed"
  /\ MutexFree(ReportsLock)
  /\ ReportsLock' = p
  /\ at(p, [queries[p] EXCEPT !.pc = "locked"])
  /\ UNCHANGED <<coreVars, callVars, fetchVars, runVars,
                 updateLock>>

\* the comparison with ReportHash, GetObject and readCSV have answered r
AWSPassParsed(p, r) ==
  IF ReportHash = ETagOf(queries[p].selected) \/ r.err
  THEN passReturn(p)
  ELSE \/ passReturn(p)
       \/ /\ ReportsLock' = ReportsLock
          /\ at(p, [queries[p] EXCEPT !.pc = "loop", !.todo = r.elems])

\* what readCSV answers on the report contents
readReports == [j \in DOMAIN AWSReports |-> readCSV(AWSReports[j])]

\* Query from the lock to the loop; GetObject or Close may fail
AWSPassRead(p) ==
  /\ source = "aws" /\ ~awsPanicked
  /\ queries[p].pc = "locked"
  /\ AWSPassParsed(p, readReports[queries[p].selected])
  /\ UNCHANGED <<coreVars, callVars, fetchVars, runVars,
                 updateLock>>

\* one iteration of the loop has left st
AWSPassReconciled(p, st) ==
  /\ awsMetricValues' = st.mv
  /\ awsMetricMonthlyCosts' = st.counters
  /\ accountNameByIDAPI' = st.cache.api
  /\ accountNameByIDAPILastUpdate' = st.cache.lastUpdate
  /\ awsListings' = st.cache.listings
  /\ awsPanicked' = st.panicked
  /\ IF st.panicked
     THEN passReturn(p)
     ELSE /\ ReportsLock' = ReportsLock
          /\ at(p, [queries[p] EXCEPT !.todo = Tail(@)])

\* one iteration of the loop of Query
AWSPassElement(p) ==
  /\ source = "aws" /\ ~awsPanicked
  /\ queries[p].pc = "loop"
  /\ queries[p].todo # <<>>
  /\ \E dir \in IF awsRefreshDue THEN {DirTree, DirDown} ELSE {DirDown} :
       AWSPassReconciled(p,
         awsQueryLoop(<<Head(queries[p].todo)>>, 1,
           [mv |-> awsMetricValues, counters |-> awsMetricMonthlyCosts,
            cache |-> awsCache, panicked |-> FALSE, pass |-> <<>>],
           accountNameByIDOverride, dir, now))
  /\ UNCHANGED <<rootAccountID, accountNameByIDOverride, ReportHash, awsRet>>
  /\ UNCHANGED <<reduceVars, source, now, gcpVars, callVars, fetchVars, runVars,
                 updateLock>>

\* the end of Query
AWSPassEnd(p) ==
  /\ source = "aws" /\ ~awsPanicked
  /\ queries[p].pc = "loop"
  /\ queries[p].todo = <<>>
  /\ ReportHash' = ETagOf(queries[p].selected)
  /\ passReturn(p)
  /\ UNCHANGED <<rootAccountID, accountNameByIDOverride, accountNameByIDAPI,
                 accountNameByIDAPILastUpdate, awsMetricValues,
                 awsMetricMonthlyCosts, awsPanicked, awsListings, awsRet>>
  /\ UNCHANGED <<reduceVars, source, now, gcpVars, callVars, fetchVars, runVars,
                 updateLock>>

\* a call of GCPBilling.OldQuery begins
GCPPassCall(p) ==
  /\ source = "gcp"
  /\ queries[p].pc = "idle"
  /\ at(p, [NoQuery EXCEPT !.pc = "called"])
  /\ UNCHANGED <<ReportsLock, coreVars, callVars, fetchVars, runVars,
                 updateLock>>

\* ReportsLock.Lock
GCPPassLock(p) ==
  /\ source = "gcp"
  /\ queries[p].pc = "called"
  /\ MutexFree(ReportsLock)
  /\ ReportsLock' = p
  /\ at(p, [queries[p] EXCEPT !.pc = "locked"])
  /\ UNCHANGED <<coreVars, callVars, fetchVars, runVars,
                 updateLock>>

\* the listings OldQuery is given here: one report, or a failing listing
PassListings(prefix) ==
  {o \in ListingOutcomes(prefix) :
     \/ o.kind = "err"
     \/ /\ o.kind = "objects" /\ ~o.errAfter /\ Len(o.objects) = 1
        /\ o.objects[1].fault = ""}

\* OldQuery once GetReports has answered r and update u
GCPPassFetched(p, r, u) ==
  /\ Reports' = r.g.Reports
  /\ ReportsMonthPrefix' = r.g.ReportsMonthPrefix
  /\ IF r.err # ""
     THEN /\ passReturn(p)
          /\ UNCHANGED <<metadataByProjectID, metadataByID, lastUpdate,
                         gcpListings>>
     ELSE /\ GCPUpdated(u)
          /\ ReportsLock' = ReportsLock
          /\ at(p, [queries[p] EXCEPT !.pc = "loop",
                                      !.todo = gcpPassElements(r.g.Reports)])

\* OldQuery from the lock to the loop
GCPPassFetch(p) ==
  /\ source = "gcp"
  /\ queries[p].pc = "locked"
  /\ \E cur \in PassListings(filterLastTwoMonths(today)[1]) :
     \E crm \in IF gcpRefreshDue THEN {CrmTree, CrmDown} ELSE {CrmDown} :
       GCPPassFetched(p,
         GetReports([Reports |-> Reports,
                     ReportsMonthPrefix |-> ReportsMonthPrefix],
                    today, cur, cur),
         gcpUpdate(gcpMetadata, crm, now))
  /\ UNCHANGED <<today, gcpMetricValues, gcpMetricMonthlyCosts, gcpRet>>
  /\ UNCHANGED <<reduceVars, source, now, awsVars, callVars, fetchVars, runVars,
                 updateLock>>

\* one iteration of the loop has left st
GCPPassReconciled(p, st) ==
  /\ gcpMetricValues' = st.mv
  /\ gcpMetricMonthlyCosts' = st.counters
  /\ at(p, [queries[p] EXCEPT !.todo = Tail(@)])

\* one iteration of the loop of OldQuery
GCPPassElement(p) ==
  /\ source = "gcp"
  /\ queries[p].pc = "loop"
  /\ queries[p].todo # <<>>
  /\ GCPPassReconciled(p,
       gcpQueryLoop(<<Head(queries[p].todo)>>, 1,
         [mv |-> gcpMetricValues, counters |-> gcpMetricMonthlyCosts,
          pass |-> <<>>],
         metadataByProjectID, metadataByID))
  /\ UNCHANGED <<today, Reports, ReportsMonthPrefix, metadataByProjectID,
                 metadataByID, lastUpdate, gcpListings, gcpRet>>
  /\ UNCHANGED <<ReportsLock, reduceVars, source, now, awsVars, callVars, fetchVars, runVars,
                 updateLock>>

\* the end of OldQuery
GCPPassEnd(p) ==
  /\ source = "gcp"
  /\ queries[p].pc = "loop"
  /\ queries[p].todo = <<>>
  /\ passReturn(p)
  /\ UNCHANGED <<coreVars, callVars, fetchVars, runVars,
                 updateLock>>

NextPasses ==
  \E p \in Procs :
    \/ AWSPassList(p)
    \/ AWSPassLock(p)
    \/ AWSPassRead(p)
    \/ AWSPassElement(p)
    \/ AWSPassEnd(p)
    \/ GCPPassCall(p)
    \/ GCPPassLock(p)
    \/ GCPPassFetch(p)
    \/ GCPPassElement(p)
    \/ GCPPassEnd(p)

SpecPasses == InitSource /\ [][NextPasses]_vars

(* ------- the directory refresh inside Query and OldQuery, step by step ------ *)
\* the listing has left the cache c
AWSRefreshed(c) ==
  /\ accountNameByIDAPI' = c.api
  /\ accountNameByIDAPILastUpdate' = c.lastUpdate
  /\ awsListings' = c.listings

\* AccountByID, called by the loop of Query for the element at hand:
\* accountNameByIDAPILock.Lock and the test whether a refresh is due
AWSResolveLock(p) ==
  /\ source = "aws" /\ ~awsPanicked
  /\ queries[p].pc = "loop"
  /\ queries[p].todo # <<>>
  /\ MutexFree(updateLock)
  /\ updateLock' = p
  /\ at(p, [queries[p] EXCEPT
              !.pc = IF awsRefreshDue THEN "listing" ELSE "lookup"])
  /\ UNCHANGED <<ReportsLock, coreVars, callVars, fetchVars, runVars>>

\* AccountNameByID of the earlier revision, called by the loop of Query: no
\* mutex of its own; the override is returned before the refresh
AWSNameCall(p) ==
  /\ source = "aws" /\ ~awsPanicked
  /\ queries[p].pc = "loop"
  /\ queries[p].todo # <<>>
  /\ at(p, [queries[p] EXCEPT
              !.pc = IF /\ Head(queries[p].todo).ProjectID
                             \notin DOMAIN accountNameByIDOverride
                        /\ awsRefreshDue
                     THEN "nameListing" ELSE "nameLookup"])
  /\ UNCHANGED <<ReportsLock, updateLock, coreVars, callVars, fetchVars, runVars>>

\* what getAccountNameByIDAPI answers on the directories a refresh meets
listedDirectories ==
  [dir \in {DirTree, DirDown} |-> getAccountNameByIDAPI(dir)]

\* getAccountNameByIDAPI has answered: the mapping is replaced on success
AWSResolveStore(p) ==
  /\ source = "aws" /\ ~awsPanicked
  /\ queries[p].pc \in {"listing", "nameListing"}
  /\ \E dir \in {DirTree, DirDown} :
       AWSRefreshed(AccountByIDStore(awsCache, listedDirectories[dir], now))
  /\ at(p, [queries[p] EXCEPT
              !.pc = IF @ = "listing" THEN "lookup" ELSE "nameLookup"])
  /\ UNCHANGED <<ReportsLock, updateLock, rootAccountID, accountNameByIDOverride,
                 ReportHash, awsMetricValues, awsMetricMonthlyCosts, awsPanicked,
                 awsRet>>
  /\ UNCHANGED <<reduceVars, source, now, gcpVars, callVars, fetchVars, runVars>>

\* what the lookup of either revision answers for the account id
resolved(pc, c, override, id) ==
  IF pc = "lookup" THEN AccountByIDLookup(c, override, id)
  ELSE [cache |-> c,
        account |-> Account(id, IF id \in DOMAIN override THEN override[id]
                                ELSE AccountNameByIDLookup(c, id).name)]

\* the iteration of the loop has left st: the deferred Unlock of AccountByID
AWSResolveReconciled(p, st) ==
  /\ awsMetricValues' = st.mv
  /\ awsMetricMonthlyCosts' = st.counters
  /\ AWSRefreshed(st.cache)
  /\ awsPanicked' = st.panicked
  /\ updateLock' = IF updateLock = p THEN 0 ELSE updateLock
  /\ IF st.panicked
     THEN passReturn(p)
     ELSE /\ ReportsLock' = ReportsLock
          /\ at(p, [queries[p] EXCEPT !.pc = "loop", !.todo = Tail(@)])

\* the lookup in the mapping and the rest of the iteration of Query
AWSResolveLookup(p) ==
  /\ source = "aws" /\ ~awsPanicked
  /\ queries[p].pc \in {"lookup", "nameLookup"}
  /\ AWSResolveReconciled(p,
       awsQueryElement(<<Head(queries[p].todo)>>, 1,
         [mv |-> awsMetricValues, counters |-> awsMetricMonthlyCosts,
          cache |-> awsCache, panicked |-> FALSE, pass |-> <<>>],
         resolved(queries[p].pc, awsCache, accountNameByIDOverride,
                  Head(queries[p].todo).ProjectID),
         awsGroupByProjectIDServiceCurrency(Head(queries[p].todo)),
         accountNameByIDOverride, DirDown, now))
  /\ UNCHANGED <<rootAccountID, accountNameByIDOverride, ReportHash, awsRet>>
  /\ UNCHANGED <<reduceVars, source, now, gcpVars, callVars, fetchVars, runVars>>

\* OldQuery once GetReports has answered r
GCPUpdateFetched(p, r) ==
  /\ Reports' = r.g.Reports
  /\ ReportsMonthPrefix' = r.g.ReportsMonthPrefix
  /\ IF r.err # ""
     THEN passReturn(p)
     ELSE /\ ReportsLock' = ReportsLock
          /\ at(p, [queries[p] EXCEPT !.pc = "update"])

\* OldQuery from the lock to the call of update
GCPUpdateFetch(p) ==
  /\ source = "gcp"
  /\ queries[p].pc = "locked"
  /\ \E cur \in PassListings(filterLastTwoMonths(today)[1]) :
       GCPUpdateFetched(p,
         GetReports([Reports |-> Reports,
                     ReportsMonthPrefix |-> ReportsMonthPrefix],
                    today, cur, cur))
  /\ UNCHANGED <<today, gcpMetricValues, gcpMetricMonthlyCosts, gcpRet,
                 metadataByProjectID, metadataByID, lastUpdate, gcpListings>>
  /\ UNCHANGED <<updateLock, reduceVars, source, now, awsVars, callVars,
                 fetchVars, runVars>>

\* update: updateLock.Lock; a fresh cache is left alone
GCPUpdateLock(p) ==
  /\ source = "gcp"
  /\ queries[p].pc = "update"
  /\ MutexFree(updateLock)
  /\ IF gcpRefreshDue
     THEN /\ updateLock' = p
          /\ at(p, [queries[p] EXCEPT !.pc = "listing"])
     ELSE /\ updateLock' = updateLock
          /\ at(p, [queries[p] EXCEPT !.pc = "loop",
                                      !.todo = gcpPassElements(Reports)])
  /\ UNCHANGED <<ReportsLock, coreVars, callVars, fetchVars, runVars>>

\* the listings of update have answered; the deferred updateLock.Unlock
GCPUpdateStore(p) ==
  /\ source = "gcp"
  /\ queries[p].pc = "listing"
  /\ \E crm \in {CrmTree, CrmDown} :
       GCPUpdated(gcpUpdate(gcpMetadata, crm, now))
  /\ updateLock' = 0
  /\ at(p, [queries[p] EXCEPT !.pc = "loop",
                              !.todo = gcpPassElements(Reports)])
  /\ UNCHANGED <<today, Reports, ReportsMonthPrefix, gcpMetricValues,
                 gcpMetricMonthlyCosts, gcpRet>>
  /\ UNCHANGED <<ReportsLock, reduceVars, source, now, awsVars, callVars,
                 fetchVars, runVars>>

NextResolve ==
  \/ Tick
  \/ \E p \in Procs :
       \/ AWSPassList(p)
       \/ AWSPassLock(p)
       \/ AWSPassRead(p)
       \/ AWSResolveLock(p)
       \/ AWSNameCall(p)
       \/ AWSResolveStore(p)
       \/ AWSResolveLookup(p)
       \/ AWSPassEnd(p)
       \/ GCPPassCall(p)
       \/ GCPPassLock(p)
       \/ GCPUpdateFetch(p)
       \/ GCPUpdateLock(p)
       \/ GCPUpdateStore(p)
       \/ GCPPassElement(p)
       \/ GCPPassEnd(p)

SpecResolve == InitSource /\ [][NextResolve]_vars

\* a call that has begun goes on: every object-store and directory call
\* answers, and a goroutine waiting in sync.Mutex.Lock gets the mutex when
\* it is released again and again (the mutex hands over to a starving
\* waiter)
ResolveReturns(p) ==
  \/ AWSPassRead(p)
  \/ AWSResolveLock(p)
  \/ AWSNameCall(p)
  \/ AWSResolveStore(p)
  \/ AWSResolveLookup(p)
  \/ AWSPassEnd(p)
  \/ GCPUpdateFetch(p)
  \/ GCPUpdateLock(p)
  \/ GCPUpdateStore(p)
  \/ GCPPassElement(p)
  \/ GCPPassEnd(p)

FairResolve ==
  \A p \in Procs :
    /\ WF_vars(ResolveReturns(p))
    /\ SF_vars(AWSPassLock(p))
    /\ SF_vars(GCPPassLock(p))

\* the calls alone, at one time of the clock
NextCalls ==
  \E p \in Procs :
    \/ AWSPassList(p)
    \/ AWSPassLock(p)
    \/ GCPPassCall(p)
    \/ GCPPassLock(p)
    \/ ResolveReturns(p)

SpecResolveFair == InitSource /\ [][NextCalls]_vars /\ FairResolve

(* ------------------ the selection of the report object ----------------- *)
\* most objects a listing holds
MaxObjects == 3

\* the objects of the bucket under the prefix of the root account 111
ReportObjects ==
  {[Key |-> ReportKey("111", KeySuffixes[i]), ETag |-> ETagOf(i)] :
     i \in DOMAIN KeySuffixes}

\* the listings of the bucket: every order of every set of objects, in one
\* page or cut into two
ReportListings ==
  {l \in SeqsUpTo(ReportObjects, MaxObjects) :
     \A i, j \in DOMAIN l : l[i] = l[j] => i = j}

ReportPages ==
  {<<l>> : l \in ReportListings}
  \cup UNION {{<<SubSeq(l, 1, k), SubSeq(l, k + 1, Len(l))>> : k \in 0..Len(l)} :
                 l \in ReportListings}

InitSelect ==
  /\ source = ""
  /\ now = Hour + 1
  /\ ReduceIdle
  /\ AWSNew("", <<>>)
  /\ GCPNew
  /\ result = NoResult
  /\ PassIdle
  /\ FetchIdle
  /\ RunIdle
  /\ \E pages \in ReportPages : \E hash \in {"", ETagOf(1), ETagOf(2), ETagOf(3)} :
       call = [fn |-> "Query", pages |-> pages, ReportHash |-> hash]

\* what Query does with the object the listing selected
selection(billingObject, hash) ==
  [billingObject |-> billingObject,
   download |-> ~billingObject.nil /\ ~reportParsed(hash, billingObject)]

\* Query from the listing to the comparison with ReportHash
SelectReport ==
  /\ call.fn = "Query"
  /\ ~result.done
  /\ result' = Returned(selection(
                 ListObjectsPages(call.pages,
                                  [nil |-> TRUE, Key |-> "", ETag |-> ""]),
                 call.ReportHash))
  /\ UNCHANGED <<call, coreVars, passVars, fetchVars, runVars>>

NextSelect == SelectReport

SpecSelect == InitSelect /\ [][NextSelect]_vars

(* ------------------------ GetReports step by step ----------------------- *)
\* a getReportFile goroutine: the object, the prefix it was listed under,
\* how far it has come and whether the running GetReports waits for it
task(objectAttrs, prefix) ==
  [attr |-> objectAttrs, prefix |-> prefix, pc |-> "start", wg |-> TRUE]

\* the slot getReportFile computes from the object's name
slotOf(objectAttrs) == Atoi(objectAttrs.day).val - 1

\* the index g.Reports[i] of getReportFile is outside the array: the goroutine
\* panics, and with it the process
getReportFilePanics(window, objectAttrs) ==
  /\ Atoi(objectAttrs.day).ok
  /\ slotOf(objectAttrs) \notin DOMAIN window

\* the process after a panic
Panicked == [NoFetch EXCEPT !.pc = "panic"]

\* getReportFile returns before it decodes anything
getReportFileSkips(window, objectAttrs) ==
  \/ ~Atoi(objectAttrs.day).ok
  \/ window[slotOf(objectAttrs)].Hash = objectAttrs.MD5
  \/ objectAttrs.fault \in {"read", "syntax"}

\* getReportFile up to the end of Decode
TaskDecode(t) ==
  /\ source = "gcp"
  /\ t \in tasks
  /\ t.pc = "start"
  /\ IF getReportFilePanics(Reports, t.attr)
     THEN /\ fetch' = Panicked
          /\ tasks' = {}
          /\ UNCHANGED <<Reports, ReportsFrom>>
     ELSE IF getReportFileSkips(Reports, t.attr)
     THEN /\ tasks' = tasks \ {t}
          /\ UNCHANGED <<fetch, Reports, ReportsFrom>>
     ELSE /\ Reports' = [Reports EXCEPT ![slotOf(t.attr)].Elements =
                           DecodeInto(@, GCPReports[t.attr.body])]
          /\ ReportsFrom' = [ReportsFrom EXCEPT ![slotOf(t.attr)] = t.prefix]
          /\ tasks' = IF t.attr.fault = "type" THEN tasks \ {t}
                      ELSE (tasks \ {t}) \cup {[t EXCEPT !.pc = "decoded"]}
          /\ fetch' = fetch
  /\ UNCHANGED <<today, ReportsMonthPrefix, gcpMetricValues,
                 gcpMetricMonthlyCosts, metadataByProjectID, metadataByID,
                 lastUpdate, gcpListings, gcpRet>>
  /\ UNCHANGED <<reduceVars, source, now, awsVars, callVars, passVars, runVars>>

\* getReportFile from the reduction to its end
TaskStore(t) ==
  /\ source = "gcp"
  /\ t \in tasks
  /\ t.pc = "decoded"
  /\ Reports' = [Reports EXCEPT ![slotOf(t.attr)] =
                   [Elements |-> reduceElementsByProjectIDServiceCurrency(@.Elements),
                    Hash |-> t.attr.MD5]]
  /\ ReportsFrom' = [ReportsFrom EXCEPT ![slotOf(t.attr)] = t.prefix]
  /\ tasks' = tasks \ {t}
  /\ UNCHANGED <<fetch, today, ReportsMonthPrefix, gcpMetricValues,
                 gcpMetricMonthlyCosts, metadataByProjectID, metadataByID,
                 lastUpdate, gcpListings, gcpRet>>
  /\ UNCHANGED <<reduceVars, source, now, awsVars, callVars, passVars, runVars>>

\* most getReportFile goroutines running at one time
MaxTasks == 2

\* what listing one prefix gives GetReports here: an error, nothing, one
\* report (after which the listing may fail), one report that cannot be
\* read or does not decode into the elements, one object whose number is
\* no day of the month, or two objects, the first of which may have a name
\* without a number and the second the first one's number
FetchListings(prefix) ==
  {o \in ListingOutcomes(prefix) : o.kind \in {"err", "empty"}}
  \cup {[kind |-> "objects", objects |-> <<ObjectAttrs(prefix, "01", i, "")>>,
         errAfter |-> e] : i \in {1, 3}, e \in BOOLEAN}
  \cup {[kind |-> "objects", objects |-> <<ObjectAttrs(prefix, "01", 2, f)>>,
         errAfter |-> FALSE] : f \in {"read", "type"}}
  \cup {[kind |-> "objects", objects |-> <<ObjectAttrs(prefix, day, 1, "")>>,
         errAfter |-> FALSE] : day \in {"00", "33"}}
  \cup {[kind |-> "objects",
         objects |-> <<ObjectAttrs(prefix, day, 1, ""),
                       ObjectAttrs(prefix, "02", 3, "")>>,
         errAfter |-> FALSE] : day \in {"01", "xx"}}
  \cup {[kind |-> "objects",
         objects |-> <<ObjectAttrs(prefix, "01", 1, ""),
                       ObjectAttrs(prefix \o "b", "01", 3, "")>>,
         errAfter |-> FALSE]}

\* GetReports from the first object found under prefix to the first
\* goroutine: the window is cleared when the prefix is a new one
FetchFound(found, prefix) ==
  /\ ReportsMonthPrefix' = prefix
  /\ IF ReportsMonthPrefix # prefix
     THEN /\ Reports' = [i \in 0..(ReportsPerMonth - 1) |-> EmptyReport]
          /\ ReportsFrom' = NoneFrom
     ELSE UNCHANGED <<Reports, ReportsFrom>>
  /\ tasks' = tasks \cup {task(found.objects[1], prefix)}
  /\ fetch' = [pc |-> "listing", rest |-> Tail(found.objects),
               errAfter |-> found.errAfter, prefix |-> prefix,
               objects |-> found.objects, window |-> Reports']

\* GetReports once the listings of the two prefixes have begun
FetchListed(found, prefix) ==
  IF found.kind \in {"err", "empty"}
  THEN UNCHANGED <<Reports, ReportsMonthPrefix, fetchVars>>
  ELSE /\ Cardinality(tasks) + Len(found.objects) <= MaxTasks
       /\ FetchFound(found, prefix)

\* a call of GetReports, up to its first goroutine or its early return
FetchCall ==
  /\ source = "gcp"
  /\ fetch.pc = "idle"
  /\ \E cur \in FetchListings(filterLastTwoMonths(today)[1]) :
       IF cur.kind # "empty"
       THEN FetchListed(cur, filterLastTwoMonths(today)[1])
       ELSE \E last \in FetchListings(filterLastTwoMonths(today)[2]) :
              FetchListed(last, filterLastTwoMonths(today)[2])
  /\ UNCHANGED <<today, gcpMetricValues, gcpMetricMonthlyCosts,
                 metadataByProjectID, metadataByID, lastUpdate, gcpListings,
                 gcpRet>>
  /\ UNCHANGED <<reduceVars, source, now, awsVars, callVars, passVars, runVars>>

\* it.Next fails: GetReports returns the error at once, and the goroutines
\* it has started are no longer waited for
FetchFails ==
  /\ fetch' = NoFetch
  /\ tasks' = {[t EXCEPT !.wg = FALSE] : t \in tasks}

\* one turn of the listing loop of GetReports
FetchNext ==
  /\ source = "gcp"
  /\ fetch.pc = "listing"
  /\ IF fetch.rest # <<>>
     THEN /\ tasks' = tasks \cup {task(Head(fetch.rest), fetch.prefix)}
          /\ fetch' = [fetch EXCEPT !.rest = Tail(@)]
     ELSE IF fetch.errAfter
     THEN FetchFails
     ELSE /\ fetch' = [fetch EXCEPT !.pc = "waiting"]
          /\ tasks' = tasks
  /\ UNCHANGED <<ReportsFrom, coreVars, callVars, passVars, runVars>>

\* wg.Wait and the return of GetReports
FetchWait ==
  /\ source = "gcp"
  /\ fetch.pc = "waiting"
  /\ \A t \in tasks : ~t.wg
  /\ fetch' = NoFetch
  /\ UNCHANGED <<tasks, ReportsFrom, coreVars, callVars, passVars, runVars>>

NextFetch ==
  \/ FetchCall
  \/ FetchNext
  \/ FetchWait
  \/ \E t \in tasks : TaskDecode(t)
  \/ \E t \in tasks : TaskStore(t)
  \/ NextMonth

SpecFetch == InitGCP /\ [][NextFetch]_vars

(* ------------- filterLastTwoMonths as a state machine ------------------ *)
\* the dates of the clock and the report prefixes the function is called for
Years == 2014..2018
Months == January..December
ReportPrefixes == {"prefix", "my-billing"}

InitPrefixes ==
  /\ source = ""
  /\ now = Hour + 1
  /\ ReduceIdle
  /\ AWSNew("", <<>>)
  /\ GCPNew
  /\ PassIdle
  /\ FetchIdle
  /\ RunIdle
  /\ result = NoResult
  /\ \E reportPrefix \in ReportPrefixes, year \in Years, month \in Months,
        day \in {2, 28} :
       call = [fn |-> "filterLastTwoMonths", ReportPrefix |-> reportPrefix,
               date |-> [year |-> year, month |-> month, day |-> day]]

FilterLastTwoMonths ==
  /\ call.fn = "filterLastTwoMonths"
  /\ ~result.done
  /\ result' = Returned(filterLastTwoMonthsOf(call.ReportPrefix, call.date))
  /\ UNCHANGED <<call, coreVars, passVars, fetchVars, runVars>>

NextPrefixes == FilterLastTwoMonths

SpecPrefixes == InitPrefixes /\ [][NextPrefixes]_vars

(* --------------------- readCSV as a state machine ---------------------- *)
\* most records after the header in a report handed to readCSV
MaxRecords == 2

\* the orders of the columns in the first record
CSVHeaders ==
  {CSVHeader,
   <<"LinkedAccountId", "RecordType", "CurrencyCode", "ProductCode", "TotalCost">>,
   <<"TotalCost", "CurrencyCode", "ProductCode", "LinkedAccountId", "RecordType">>}

\* the records after the header, by column name
CSVFields ==
  [RecordType : {"LinkedLineItem", "Tax"}, LinkedAccountId : {"1234", "999"},
   ProductCode : {"S3"}, TotalCost : {"12.50", "1", "x"},
   CurrencyCode : {"USD"}]

\* the record of the fields f under the header
CSVRecord(header, f) ==
  [k \in DOMAIN header |->
     CASE header[k] = "RecordType"      -> f.RecordType
       [] header[k] = "LinkedAccountId" -> f.LinkedAccountId
       [] header[k] = "ProductCode"     -> f.ProductCode
       [] header[k] = "TotalCost"       -> f.TotalCost
       [] header[k] = "CurrencyCode"    -> f.CurrencyCode]

\* the report of the rows under the header
CSVReport(header, rows) ==
  <<header>> \o [k \in DOMAIN rows |-> CSVRecord(header, rows[k])]

InitCSV ==
  /\ source = ""
  /\ now = Hour + 1
  /\ ReduceIdle
  /\ AWSNew("", <<>>)
  /\ GCPNew
  /\ result = NoResult
  /\ PassIdle
  /\ FetchIdle
  /\ RunIdle
  /\ \E header \in CSVHeaders, rows \in SeqsUpTo(CSVFields, MaxRecords) :
       call = [fn |-> "readCSV", header |-> header, rows |-> rows]

ReadCSV ==
  /\ call.fn = "readCSV"
  /\ ~result.done
  /\ result' = Returned(readCSV(CSVReport(call.header, call.rows)))
  /\ UNCHANGED <<call, coreVars, passVars, fetchVars, runVars>>

NextCSV == ReadCSV

SpecCSV == InitCSV /\ [][NextCSV]_vars

(* ------------------- readCSV on malformed reports ---------------------- *)
\* the fields of the records of a malformed report
MalformedFields ==
  [RecordType : {"LinkedLineItem", "Tax"}, LinkedAccountId : {"1234"},
   ProductCode : {"S3"}, TotalCost : {"12.50", "x"}, CurrencyCode : {"USD"}]

\* the columns a header may lack
LackedColumns == {"LinkedAccountId", "ProductCode", "TotalCost", "CurrencyCode"}

\* the header without the column name
Without(header, name) == SelectSeq(header, LAMBDA c : c # name)

\* the report of the rows under the header that lacks the column lacks (""
\* for none), in which the record short (0 for none) has lost its last field
MalformedReport(header, rows, lacks, short) ==
  [k \in 1..(Len(rows) + 1) |->
     IF short > 0 /\ k = short + 1
     THEN SubSeq(CSVReport(Without(header, lacks), rows)[k], 1,
                 Len(Without(header, lacks)) - 1)
     ELSE CSVReport(Without(header, lacks), rows)[k]]

InitMalformed ==
  /\ source = ""
  /\ now = Hour + 1
  /\ ReduceIdle
  /\ AWSNew("", <<>>)
  /\ GCPNew
  /\ result = NoResult
  /\ PassIdle
  /\ FetchIdle
  /\ RunIdle
  /\ \E header \in CSVHeaders, rows \in SeqsUpTo(MalformedFields, MaxRecords),
        lacks \in LackedColumns \cup {""}, short \in 0..MaxRecords :
       /\ short <= Len(rows)
       /\ call = [fn |-> "readCSV", header |-> header, rows |-> rows,
                  lacks |-> lacks, short |-> short]

ReadMalformedCSV ==
  /\ call.fn = "readCSV"
  /\ ~result.done
  /\ result' = Returned(readCSV(MalformedReport(call.header, call.rows,
                                                call.lacks, call.short)))
  /\ UNCHANGED <<call, coreVars, passVars, fetchVars, runVars>>

NextMalformed == ReadMalformedCSV

SpecMalformed == InitMalformed /\ [][NextMalformed]_vars

(* ------------- reports of accounts that share a project tag ------------ *)
\* 111 and 999 both carry the project-id tag web, under the root
DirShared ==
  [listErr |-> FALSE,
   accounts |-> << [Id |-> "111", Name |-> "legacy-name",
                    Tags |-> [err |-> FALSE,
                              tags |-> <<[Key |-> "project-id", Value |-> "web"]>>]],
                   [Id |-> "999", Name |-> "prod",
                    Tags |-> [err |-> FALSE,
                              tags |-> <<[Key |-> "project-id", Value |-> "web"]>>]] >>,
   parents |-> [id \in OrgIDs |->
                  CASE id = "111" -> ParentIs("r-1")
                    [] id = "999" -> ParentIs("r-1")
                    [] OTHER -> NoParents],
   ous |-> [id \in {"ou-1"} |-> [err |-> TRUE, name |-> ""]],
   org |-> [err |-> FALSE, email |-> <<"root", "@", "example.com">>]]

SharedDirectories == {DirTree, DirFlat, DirShared, DirDown}

\* report contents in which both accounts use S3
SharedReports ==
  << <<CSVHeader, LineItem("111", "S3", "1")>>,
     <<CSVHeader, LineItem("111", "S3", "1"), LineItem("999", "S3", "1")>>,
     <<CSVHeader, LineItem("999", "S3", "2"), LineItem("111", "S3", "2")>>,
     <<CSVHeader, LineItem("111", "S3", "2"), LineItem("999", "EC2", "1")>> >>

\* the ETag S3 reports for the content SharedReports[j]
SharedETagOf(j) == <<"s1", "s2", "s3", "s4">>[j]

\* Query from GetObject on, on a listed report SharedReports[j] that parses:
\* readCSV, the reconciliation loop and the assignment of ReportHash
AWSQueryShared ==
  /\ source = "aws"
  /\ ~awsPanicked
  /\ UNCHANGED <<rootAccountID, accountNameByIDOverride>>
  /\ UNCHANGED <<reduceVars, restVars, source, now, gcpVars>>
  /\ \E j \in DOMAIN SharedReports :
       /\ ~reportParsed(ReportHash, [ETag |-> SharedETagOf(j)])
       /\ \E dir \in IF awsRefreshDue THEN SharedDirectories ELSE {DirDown} :
            AWSQueryReconciled(
              [nil |-> FALSE, Key |-> ReportKey("111", KeySuffixes[1]),
               ETag |-> SharedETagOf(j)],
              awsQueryLoop(readCSV(SharedReports[j]).elems, 1,
                [mv |-> awsMetricValues, counters |-> awsMetricMonthlyCosts,
                 cache |-> awsCache, panicked |-> FALSE, pass |-> <<>>],
                accountNameByIDOverride, dir, now))

NextShared == Tick \/ AWSQueryShared

SpecShared == InitAWS /\ [][NextShared]_vars

(* -------------------- the exporter: Run and Collect -------------------- *)
\* most calls of Collect followed
MaxCollects == 3

\* a variant of activate that keeps a collector whatever Test returned
activateAlways(cs, c, err) == Append(cs, c)

\* Run's handling of a new collector c: it joins the collectors when its
\* Test returned no error
activate(cs, c, err) == IF err THEN cs ELSE Append(cs, c)

\* Run's block for the source s: skipped without a bucket name
RunSource(s, next) ==
  /\ run = s
  /\ run' = next
  /\ IF s \in configured
     THEN \E err \in BOOLEAN :
            /\ tested' = [tested EXCEPT ![s] = IF err THEN "failed" ELSE "ok"]
            /\ collectors' = activate(collectors, s, err)
     ELSE UNCHANGED <<tested, collectors>>
  /\ UNCHANGED <<configured, collects, inFlight, queried, lastQuery>>
  /\ UNCHANGED <<coreVars, callVars, passVars, fetchVars>>

RunAWS == RunSource("aws", "gcp")
RunGCP == RunSource("gcp", "register")

\* Run from the check of the collectors on: log.Fatal without a collector,
\* else the exporter is registered and served
RunRegister ==
  /\ run = "register"
  /\ run' = IF Len(collectors) = 0 THEN "fatal" ELSE "serving"
  /\ UNCHANGED <<configured, tested, collectors, collects, inFlight, queried,
                 lastQuery>>
  /\ UNCHANGED <<coreVars, callVars, passVars, fetchVars>>

\* Collect up to wg.Wait: a goroutine is started for every collector
CollectBegin ==
  /\ run = "serving"
  /\ collects < MaxCollects
  /\ run' = "collecting"
  /\ collects' = collects + 1
  /\ inFlight' = Range(collectors)
  /\ UNCHANGED <<configured, tested, collectors, queried, lastQuery>>
  /\ UNCHANGED <<coreVars, callVars, passVars, fetchVars>>

\* the goroutine of Collect for the collector s: Query is called and its
\* error, if any, is logged
CollectQuery(s) ==
  /\ s \in inFlight
  /\ inFlight' = inFlight \ {s}
  /\ queried' = [queried EXCEPT ![s] = @ + 1]
  /\ \E returned \in {"nil", "error"} :
       lastQuery' = [lastQuery EXCEPT ![s] = returned]
  /\ UNCHANGED <<configured, tested, collectors, run, collects>>
  /\ UNCHANGED <<coreVars, callVars, passVars, fetchVars>>

\* wg.Wait returns and Collect hands out the counters
CollectEnd ==
  /\ run = "collecting"
  /\ inFlight = {}
  /\ run' = "serving"
  /\ UNCHANGED <<configured, tested, collectors, collects, inFlight, queried,
                 lastQuery>>
  /\ UNCHANGED <<coreVars, callVars, passVars, fetchVars>>

InitExporter ==
  /\ source = ""
  /\ now = Hour + 1
  /\ ReduceIdle
  /\ AWSNew("", <<>>)
  /\ GCPNew
  /\ CallIdle
  /\ PassIdle
  /\ FetchIdle
  /\ \E c \in SUBSET Sources : RunNew(c)

NextExporter ==
  \/ RunAWS
  \/ RunGCP
  \/ RunRegister
  \/ CollectBegin
  \/ \E s \in Sources : CollectQuery(s)
  \/ CollectEnd

SpecExporter == InitExporter /\ [][NextExporter]_vars

(* ---------------------- claims on the reducers ------------------------- *)
awsTriple(e) == <<e.ProjectID, e.ServiceName, e.Currency>>
gcpTriple(e) == <<e.ProjectID, GetServiceName(e), e.Cost.Currency>>

awsCostsOf(t) ==
  SumSeq([i \in DOMAIN awsIn |->
            IF awsTriple(awsIn[i]) = t THEN awsIn[i].Costs ELSE 0])
gcpCostsOf(t) ==
  SumSeq([i \in DOMAIN gcpIn |->
            IF gcpTriple(gcpIn[i]) = t THEN GetValue(gcpIn[i]) ELSE 0])

\* C6: the reducer returns exactly one element per distinct triple
\* (accountID, serviceName, currency) of its input, and none besides, and
\* the element's cost is the sum of the costs of the input items of that triple.
C6_OnePerTriple ==
  /\ awsOut # NIL =>
       /\ \A i \in DOMAIN awsIn :
            \E j \in DOMAIN awsOut :
              /\ awsTriple(awsOut[j]) = awsTriple(awsIn[i])
              /\ awsOut[j].Costs = awsCostsOf(awsTriple(awsIn[i]))
              /\ \A k \in DOMAIN awsOut :
                   awsTriple(awsOut[k]) = awsTriple(awsIn[i]) => k = j
       /\ \A j \in DOMAIN awsOut :
            \E i \in DOMAIN awsIn : awsTriple(awsIn[i]) = awsTriple(awsOut[j])
  /\ gcpOut # NIL =>
       /\ \A i \in DOMAIN gcpIn :
            \E j \in DOMAIN gcpOut :
              /\ gcpTriple(gcpOut[j]) = gcpTriple(gcpIn[i])
              /\ gcpOut[j].Cost.Value = gcpCostsOf(gcpTriple(gcpIn[i]))
              /\ \A k \in DOMAIN gcpOut :
                   gcpTriple(gcpOut[k]) = gcpTriple(gcpIn[i]) => k = j
       /\ \A j \in DOMAIN gcpOut :
            \E i \in DOMAIN gcpIn : gcpTriple(gcpIn[i]) = gcpTriple(gcpOut[j])

Perms(s) == {[i \in DOMAIN s |-> s[p[i]]] : p \in Permutations(DOMAIN s)}

awsPairs(out) == {<<awsTriple(out[j]), out[j].Costs>> : j \in DOMAIN out}
gcpPairs(out) == {<<gcpTriple(out[j]), out[j].Cost.Value>> : j \in DOMAIN out}

\* C7: reducing any permutation of the input gives the same set of
\* (triple, summed cost) pairs as reducing the input itself.
C7_OrderIndependent ==
  /\ awsOut # NIL =>
       \A q \in Perms(awsIn) :
         awsPairs(awsReduceElementsByFunc(q)) = awsPairs(awsOut)
  /\ gcpOut # NIL =>
       \A q \in Perms(gcpIn) :
         gcpPairs(reduceElementsByProjectIDServiceCurrency(q)) = gcpPairs(gcpOut)

(* ----------------------- claims on reconciliation ---------------------- *)
\* the value of a counter series, 0 before it exists
CounterValue(counters, labels) ==
  IF labels \in DOMAIN counters THEN counters[labels] ELSE 0

RECURSIVE SumOver(_, _)
SumOver(counters, S) ==
  IF S = {} THEN 0
  ELSE LET l == CHOOSE x \in S : TRUE
       IN  counters[l] + SumOver(counters, S \ {l})

\* the sum of all series of a counter vector
CounterTotal(counters) == SumOver(counters, DOMAIN counters)

\* the last cumulative value of a key, 0 for a key never seen before
LastValue(metricValues, key) ==
  IF key \in DOMAIN metricValues THEN metricValues[key] ELSE 0

\* what a pass added to the counters: the amounts of the calls of Counter.Add
\* that did not panic
PassAdded(pass) ==
  SumSeq([i \in DOMAIN pass |-> IF pass[i].add >= 0 THEN pass[i].add ELSE 0])

\* the key of the GCP counter series with these labels
gcpKeyOfLabels(labels) == labels[3] \o "-" \o labels[4] \o "-" \o labels[2]

\* this step is a call of OldQuery
GCPOldQueryStep == today' = today /\ gcpRet'.op = "OldQuery"

\* C1: in a pass of GCPBilling.OldQuery, for every key whose freshly
\* reduced cumulative cost is lower than metricValues[key], nothing is added
\* to the counter series of that key and metricValues[key] stays as it was.
C1_RegressionGuard ==
  [][GCPOldQueryStep =>
      \A i \in DOMAIN gcpRet'.pass :
        LET p == gcpRet'.pass[i]
        IN  (p.key \in DOMAIN gcpMetricValues
               /\ p.value < gcpMetricValues[p.key])
            => /\ p.add = 0
               /\ gcpMetricValues'[p.key] = gcpMetricValues[p.key]
               /\ \A l \in DOMAIN gcpMetricMonthlyCosts' :
                    gcpKeyOfLabels(l) = p.key
                    => gcpMetricMonthlyCosts'[l]
                         = CounterValue(gcpMetricMonthlyCosts, l)]_vars

\* a pass of OldQuery has met a key whose cumulative cost fell below the
\* last value and has kept the last value
C1_Witness ==
  /\ gcpRet.op = "OldQuery" /\ gcpRet.err = ""
  /\ \E i \in DOMAIN gcpRet.pass :
       /\ gcpRet.pass[i].value < gcpMetricValues[gcpRet.pass[i].key]
       /\ gcpRet.pass[i].value > 0
       /\ gcpRet.pass[i].add = 0

\* C2: on every source no call of Query hands a negative amount to an
\* exported counter, no counter series ever decreases, and a cumulative cost
\* below the last one of its key is passed over without ending the process.
C2_CountersNeverDecrease ==
  [][/\ \A i \in DOMAIN awsRet'.pass : awsRet'.pass[i].add >= 0
     /\ \A i \in DOMAIN gcpRet'.pass : gcpRet'.pass[i].add >= 0
     /\ ~awsPanicked'
     /\ \A l \in DOMAIN awsMetricMonthlyCosts :
          /\ l \in DOMAIN awsMetricMonthlyCosts'
          /\ awsMetricMonthlyCosts'[l] >= awsMetricMonthlyCosts[l]
     /\ \A l \in DOMAIN gcpMetricMonthlyCosts :
          /\ l \in DOMAIN gcpMetricMonthlyCosts'
          /\ gcpMetricMonthlyCosts'[l] >= gcpMetricMonthlyCosts[l]]_vars

\* the reconciliation of one pass on a key whose cumulative value has not
\* fallen: the amount added is the value minus the last one, and the last
\* value becomes the value
Reconciled(pass, metricValues, metricValuesAfter) ==
  \A i \in DOMAIN pass :
    LET p == pass[i]
    IN  p.value >= LastValue(metricValues, p.key)
        => /\ p.add = p.value - LastValue(metricValues, p.key)
           /\ metricValuesAfter[p.key] = p.value

\* C3: every pass, on either source, adds to the counters, for a key whose
\* cumulative value is not below the last one (0 for a key never seen), the
\* value minus the last one and stores the value as the last one, and the
\* counters grow by exactly the amounts added; over a sequence of passes
\* with non-decreasing values of a key the amounts added therefore sum to
\* the final value minus the initial one, and metricValues[key] is the final
\* value.
C3_DeltasSumToFinal ==
  [][/\ awsRet'.op = "Query"
        => /\ Reconciled(awsRet'.pass, awsMetricValues, awsMetricValues')
           /\ CounterTotal(awsMetricMonthlyCosts')
                = CounterTotal(awsMetricMonthlyCosts) + PassAdded(awsRet'.pass)
     /\ GCPOldQueryStep
        => /\ Reconciled(gcpRet'.pass, gcpMetricValues, gcpMetricValues')
           /\ CounterTotal(gcpMetricMonthlyCosts')
                = CounterTotal(gcpMetricMonthlyCosts) + PassAdded(gcpRet'.pass)]_vars

\* a pass of AWSBilling.Query has raised a key that was seen before
C3_Witness ==
  /\ awsRet.op = "Query" /\ awsRet.err = ""
  /\ \E i \in DOMAIN awsRet.pass :
       /\ awsRet.pass[i].add > 0
       /\ awsRet.pass[i].add < awsRet.pass[i].value
       /\ awsMetricValues[awsRet.pass[i].key] = awsRet.pass[i].value

\* C4: a call of Query that returns an error leaves every counter, every
\* metricValues entry and, in the AWS source, ReportHash as they were.
C4_FailedQueryChangesNothing ==
  [][/\ (awsRet'.op = "Query" /\ awsRet'.err \notin {"", "panic"})
        => UNCHANGED <<awsMetricMonthlyCosts, awsMetricValues, ReportHash>>
     /\ (GCPOldQueryStep /\ gcpRet'.err # "")
        => UNCHANGED <<gcpMetricMonthlyCosts, gcpMetricValues>>]_vars

\* Query has failed to parse a report after an earlier report was reconciled
C4_Witness ==
  /\ awsRet.op = "Query"
  /\ awsRet.err = "Error parsing CSV billing report"
  /\ ReportHash # ""
  /\ awsMetricValues # <<>>

\* C5: when the ETag of the object Query selects equals ReportHash, Query
\* returns nil without downloading or parsing it and changes neither
\* metricValues nor a counter nor ReportHash.
C5_ETagDedup ==
  [][(awsRet'.op = "Query" /\ awsRet'.selected # ""
        /\ awsRet'.selected = ReportHash)
     => /\ awsRet'.err = ""
        /\ ~awsRet'.downloaded
        /\ ~awsRet'.parsed
        /\ UNCHANGED <<awsMetricValues, awsMetricMonthlyCosts, ReportHash>>]_vars

\* Query has selected the object it reconciled last and has returned nil
C5_Witness ==
  /\ awsRet.op = "Query" /\ awsRet.err = ""
  /\ ReportHash # ""
  /\ awsRet.selected = ReportHash
  /\ ~awsRet.downloaded
  /\ awsMetricValues # <<>>

(* --------------------- claims on the directory caches ------------------ *)
\* C8: for an ID with a configured override name, AccountByID (and
\* AccountNameByID of the earlier revision) returns the override name,
\* whether or not the directory lists the ID.
C8_OverridePrecedence ==
  (awsRet.op \in {"AccountByID", "AccountNameByID"}
     /\ awsRet.id \in DOMAIN accountNameByIDOverride)
  => awsRet.account.Name = accountNameByIDOverride[awsRet.id]

\* AccountByID was asked for 111, which has the override acme-dev and which
\* the directory lists
C8_Witness ==
  /\ awsRet.op = "AccountByID"
  /\ awsRet.id = "111"
  /\ "111" \in DOMAIN accountNameByIDOverride
  /\ ~accountNameByIDAPI.nil
  /\ "111" \in DOMAIN accountNameByIDAPI.m
  /\ awsRet.account.Name = "acme-dev"

\* C9: AccountByID returns an account for the ID asked for in every state of
\* the cache, also when the listing fails; without an override and without
\* a directory entry its name is "unknown-" followed by the ID.
C9_ResolveNeverFails ==
  awsRet.op = "AccountByID"
  => /\ awsRet.account.ID = awsRet.id
     /\ awsRet.account.Name # ""
     /\ (awsRet.id \notin DOMAIN accountNameByIDOverride
           /\ awsRet.id \notin DOMAIN accountNameByIDAPI.m)
        => awsRet.account.Name = "unknown-" \o awsRet.id

\* AccountByID was asked for 999 while the listing of the directory failed
C9_Witness ==
  /\ awsRet.op = "AccountByID"
  /\ awsRet.id = "999"
  /\ accountNameByIDAPI.nil
  /\ awsListings # <<>>
  /\ ~awsListings[Len(awsListings)].ok
  /\ awsRet.account.Name = "unknown-999"

\* two listings that follow each other are an hour apart
ListingsApart(listings) ==
  Len(listings) = 2 => listings[2].at - listings[1].at >= Hour

\* a listing that follows a listing that succeeded is an hour later
ListingsApartAfterSuccess(listings) ==
  (Len(listings) = 2 /\ listings[1].ok)
  => listings[2].at - listings[1].at >= Hour

\* C10 as stated: two listings of the directory service, failed ones
\* included, are at least one hour apart.
C10_OncePerHour ==
  ListingsApart(awsListings) /\ ListingsApart(gcpListings)

\* C10: a listing of the directory service that follows a listing that
\* succeeded is at least one hour later; a listing that failed is tried
\* again by the next call.
C10_OncePerHourAfterSuccess ==
  ListingsApartAfterSuccess(awsListings)
    /\ ListingsApartAfterSuccess(gcpListings)

\* the directory was listed again after a listing that succeeded
C10_Witness ==
  /\ Len(awsListings) = 2
  /\ awsListings[1].ok

(* -------------------- claims on the ancestor walks --------------------- *)
\* C11: the ancestor walk returns after finitely many steps for every
\* parent relation the directory answers with, cyclic ones and ones with a
\* missing parent included: neither getAccountPath nor path is still
\* descending after MaxDepth nested calls, more than there are ancestors
C11_WalkTerminates ==
  /\ (call.fn = "getAccountPath" /\ result.done)
       => result.r.err # "stack overflow"
  /\ (call.fn = "path" /\ result.done) => ~result.r.overflow

(* ----------------------- claims on empty listings ---------------------- *)
\* a step of AWSBilling.Query whose listing returns no object
AWSQueryOnEmptyListing ==
  /\ source = "aws"
  /\ ~awsPanicked
  /\ AWSQuerySelected(SelectBillingObject(<<>>, 1,
                        [nil |-> TRUE, Key |-> "", ETag |-> ""]))

\* a step of GCPBilling.OldQuery whose listings of both prefixes are empty
GCPOldQueryOnEmptyListings ==
  /\ source = "gcp"
  /\ today' = today
  /\ GCPOldQueryFetched(
       GetReports([Reports |-> Reports,
                   ReportsMonthPrefix |-> ReportsMonthPrefix], today,
                  [kind |-> "empty", objects |-> <<>>, errAfter |-> FALSE],
                  [kind |-> "empty", objects |-> <<>>, errAfter |-> FALSE]))

\* no exported counter has changed its value in the step
CounterValuesUnchanged(counters, countersNext) ==
  \A l \in DOMAIN counters \cup DOMAIN countersNext :
    CounterValue(countersNext, l) = CounterValue(counters, l)

\* C12: a query whose object listing is empty returns no error and changes
\* no counter, no last cumulative cost and no cached report, on the AWS
\* source and on the GCP source
C12_EmptyListingNoError ==
  [][/\ AWSQueryOnEmptyListing
          => /\ awsRet'.err = ""
             /\ CounterValuesUnchanged(awsMetricMonthlyCosts,
                                       awsMetricMonthlyCosts')
             /\ UNCHANGED <<awsMetricValues, ReportHash>>
     /\ GCPOldQueryOnEmptyListings
          => /\ gcpRet'.err = ""
             /\ CounterValuesUnchanged(gcpMetricMonthlyCosts,
                                       gcpMetricMonthlyCosts')
             /\ UNCHANGED <<gcpMetricValues, Reports, ReportsMonthPrefix>>]_vars

(* ---------------------- claims on concurrent calls --------------------- *)
\* goroutine p is in the reconciliation loop of its call
Reconciling(p) == queries[p].pc = "loop"

\* C13: two calls of Query on one source never interleave their counter
\* updates: while one call is in its reconciliation loop it holds
\* ReportsLock and no other call is in its loop, so that a step that changes
\* the counters or the last cumulative costs is a step of the only call
\* that is reconciling
C13_PassesDoNotInterleave ==
  \A p \in Procs :
    Reconciling(p) =>
      /\ ReportsLock = p
      /\ \A q \in Procs \ {p} : ~Reconciling(q)

\* one call has reconciled an element and has more to do while the other
\* waits for ReportsLock
C13_Witness ==
  \E p \in Procs : \E q \in Procs \ {p} :
    /\ Reconciling(p)
    /\ queries[p].todo # <<>>
    /\ queries[q].pc \in {"listed", "called"}
    /\ \/ source = "aws" /\ awsMetricValues # <<>>
       \/ source = "gcp" /\ gcpMetricValues # <<>>

(* ------------------------- claims on the fetch ------------------------- *)
\* C14: GetReports returns, on its success path and on every error path,
\* only after every getReportFile goroutine it started has ended: while no
\* call of GetReports is running, no goroutine is running either
C14_ForkJoin == fetch.pc = "idle" => tasks = {}

\* C16: every non-empty slot of the window holds data decoded from an
\* object under the current ReportsMonthPrefix
C16_WindowOfOnePrefix ==
  \A i \in DOMAIN Reports :
    Reports[i] # EmptyReport => ReportsFrom[i] = ReportsMonthPrefix

(* ---------------------- claims on the entry points --------------------- *)
\* the pass has stored the cumulative cost of every key that did not fall
\* and has added the difference to the counters
Applied(pass, metricValues, metricValuesAfter, counters, countersAfter) ==
  /\ \A i \in DOMAIN pass :
       pass[i].value >= LastValue(metricValues, pass[i].key)
         => /\ LastValue(metricValuesAfter, pass[i].key) = pass[i].value
            /\ pass[i].add = pass[i].value - LastValue(metricValues, pass[i].key)
  /\ CounterTotal(countersAfter) = CounterTotal(counters) + PassAdded(pass)

\* C15: a call of Query that returns nil and found a report has, for every
\* key of the report whose cumulative cost is not below the last one, stored
\* that cost as the last one and added the difference to the exported
\* counter; for AWSBilling.Query and for GCPBilling.Query
C15_QueryReconciles ==
  [][/\ (awsRet'.op = "Query" /\ awsRet'.err = "" /\ awsRet'.parsed)
          => Applied(awsRet'.pass, awsMetricValues, awsMetricValues',
                     awsMetricMonthlyCosts, awsMetricMonthlyCosts')
     /\ (gcpRet'.op = "Query" /\ gcpRet'.err = "")
          => Applied(gcpRet'.pass, gcpMetricValues, gcpMetricValues',
                     gcpMetricMonthlyCosts, gcpMetricMonthlyCosts')]_vars

(* ------------------- claims on the period prefixes --------------------- *)
\* "P-YYYY-MM-" for the month that lies n months after January of year 0
PrefixOfMonth(reportPrefix, n) ==
  reportPrefix \o "-" \o Fmt04d(n \div 12) \o "-" \o Fmt02d((n % 12) + 1) \o "-"

\* C17: filterLastTwoMonths returns exactly two prefixes, "P-YYYY-MM-" of
\* the current calendar month and then of the month before it, December of
\* the year before for January; 2017-01-02 gives prefix-2017-01- and
\* prefix-2016-12-, 2016-07-02 gives prefix-2016-07- and prefix-2016-06-
C17_LastTwoMonths ==
  (call.fn = "filterLastTwoMonths" /\ result.done) =>
    /\ Len(result.r) = 2
    /\ result.r[1] = PrefixOfMonth(call.ReportPrefix,
                                   12 * call.date.year + call.date.month - 1)
    /\ result.r[2] = PrefixOfMonth(call.ReportPrefix,
                                   12 * call.date.year + call.date.month - 2)
    /\ (call.ReportPrefix = "prefix" /\ call.date.year = 2017
          /\ call.date.month = 1)
         => result.r = <<"prefix-2017-01-", "prefix-2016-12-">>
    /\ (call.ReportPrefix = "prefix" /\ call.date.year = 2016
          /\ call.date.month = 7)
         => result.r = <<"prefix-2016-07-", "prefix-2016-06-">>

\* the function has answered for the second of January 2017
C17_Witness ==
  /\ call.fn = "filterLastTwoMonths" /\ result.done
  /\ call.ReportPrefix = "prefix"
  /\ call.date = [year |-> 2017, month |-> January, day |-> 2]
  /\ result.r[2] = "prefix-2016-12-"

(* ------------------------- claims on readCSV --------------------------- *)
RECURSIVE LinkedLineItems(_, _)
\* the elements of the rows that are linked line items and, where parsed is
\* asked for, have a cost that parses
LinkedLineItems(rows, parsed) ==
  IF rows = <<>> THEN <<>>
  ELSE LET f == Head(rows)
       IN  (IF /\ f.RecordType = "LinkedLineItem"
               /\ parsed => ParseFloat(f.TotalCost).ok
            THEN <<awsBillingElement(f.LinkedAccountId, f.ProductCode,
                                     ParseFloat(f.TotalCost).val, f.CurrencyCode)>>
            ELSE <<>>) \o LinkedLineItems(Tail(rows), parsed)

\* the account, service and currency of the elements
TriplesOf(elems) == {awsTriple(elems[k]) : k \in DOMAIN elems}

\* C19 as stated: readCSV keeps exactly the rows whose RecordType is
\* LinkedLineItem: every account, service and currency of such a row, and
\* no other, is among the elements returned
C19_KeepsLinkedLineItems ==
  (call.fn = "readCSV" /\ result.done)
  => /\ ~result.r.err
     /\ TriplesOf(result.r.elems) = TriplesOf(LinkedLineItems(call.rows, FALSE))

\* C19: readCSV returns the reduction of exactly the rows whose RecordType is
\* LinkedLineItem and whose TotalCost parses as a number, with account,
\* service, cost and currency read from the columns named by the header,
\* in any column order; the header RecordType,LinkedAccountId,ProductCode,
\* TotalCost,CurrencyCode with the row LinkedLineItem,1234,S3,12.50,USD alone
\* gives the single element (1234, S3, USD, 12.50)
C19_KeepsParsedLinkedLineItems ==
  (call.fn = "readCSV" /\ result.done)
  => /\ ~result.r.err
     /\ result.r.elems
          = awsReduceElementsByFunc(LinkedLineItems(call.rows, TRUE))
     /\ \A k \in DOMAIN call.rows :
          call.rows[k].RecordType # "LinkedLineItem"
          => result.r.elems
               = awsReduceElementsByFunc(
                   LinkedLineItems(SubSeq(call.rows, 1, k - 1)
                                     \o SubSeq(call.rows, k + 1, Len(call.rows)),
                                   TRUE))
     /\ CSVReport(call.header, call.rows)
          = <<CSVHeader, <<"LinkedLineItem", "1234", "S3", "12.50", "USD">> >>
        => result.r.elems
             = <<awsBillingElement("1234", "S3", ParseFloat("12.50").val, "USD")>>

\* the line item of the CSV scenario is read under a header that names the
\* columns in another order, and the Tax row after it contributes nothing
C19_Witness ==
  /\ call.fn = "readCSV"
  /\ call.header # CSVHeader
  /\ Len(call.rows) = 2
  /\ call.rows[1].RecordType = "LinkedLineItem"
  /\ call.rows[1].TotalCost = "12.50"
  /\ call.rows[2].RecordType = "Tax"
  /\ result.done
  /\ result.r.elems = <<awsBillingElement("1234", "S3", 25, "USD")>>

(* --------------------- claims on failed report files ------------------- *)
\* C20: a getReportFile that fails to read or to JSON-decode its object
\* leaves the window as it was: the Elements and the Hash of every slot keep
\* the values they had before the call
C20_FailedFileKeepsSlot ==
  [][\A t \in tasks :
       (t.attr.fault # "" /\ TaskDecode(t)) => Reports' = Reports]_vars

(* --------------------- claims on the window slots ---------------------- *)
\* C21: an object whose name carries no number, or a number outside 1..32,
\* is skipped: no getReportFile ends the process, whatever names the
\* listing hands out
C21_BadNameNeverAborts == fetch.pc # "panic"

\* the running GetReports has listed all objects and its goroutines have
\* ended: wg.Wait returns
Joined == fetch.pc = "waiting" /\ \A t \in tasks : ~t.wg

\* C22: whatever the schedule of the getReportFile goroutines of a fetch,
\* the window they leave is the one that results from handling the listed
\* objects one after the other, and handling the same objects once more
\* leaves that window as it is
C22_ScheduleIndependent ==
  Joined => /\ Reports = getReportFiles(fetch.window, fetch.objects)
            /\ getReportFiles(Reports, fetch.objects) = Reports

(* ----------------------- claims on the slot hashes --------------------- *)
\* the objects a listing may hold for a slot of the window
SlotObjects ==
  {ObjectAttrs(ReportsMonthPrefix, day, i, fault) :
     day \in {"01", "02"}, i \in DOMAIN GCPReports,
     fault \in {"", "read", "syntax", "type"}}

\* getReportFile leaves the window alone for an object with the cached hash
CachedObjectsSkipped ==
  \A o \in SlotObjects :
    Reports[slotOf(o)].Hash = o.MD5 => getReportFile(Reports, o) = Reports

\* C23: getReportFile leaves the slot of an object whose MD5 is the cached
\* Hash as it is, and a pass of OldQuery that follows a pass over the same
\* window adds 0 to every counter and changes no entry of metricValues
C23_CachedSlotAddsNothing ==
  /\ []CachedObjectsSkipped
  /\ [][(/\ gcpRet.op = "OldQuery" /\ gcpRet.err = ""
         /\ GCPOldQueryStep /\ gcpRet'.err = ""
         /\ Reports' = Reports)
        => /\ gcpMetricValues' = gcpMetricValues
           /\ CounterValuesUnchanged(gcpMetricMonthlyCosts, gcpMetricMonthlyCosts')
           /\ \A i \in DOMAIN gcpRet'.pass : gcpRet'.pass[i].add = 0]_vars

\* a pass has found the reports of two days cached and exported: every
\* element has the value exported before, and nothing was added
C23_Witness ==
  /\ gcpRet.op = "OldQuery"
  /\ gcpRet.err = ""
  /\ Reports[0].Hash # ""
  /\ Reports[1].Hash # ""
  /\ Len(gcpRet.pass) = 2
  /\ \A i \in DOMAIN gcpRet.pass :
       /\ gcpRet.pass[i].add = 0
       /\ gcpRet.pass[i].value > 0
       /\ gcpMetricValues[gcpRet.pass[i].key] = gcpRet.pass[i].value

(* --------------------- claims on directory refreshes ------------------- *)
\* the GCP metadata before any listing
NoMetadata == [byProjectID |-> <<>>, byID |-> <<>>, lastUpdate |-> ZeroTime]

\* an update of the GCP metadata that fails leaves both maps as they were,
\* and one that succeeds leaves what the listings hold and nothing else
GCPRefreshReplaces(crm) ==
  LET u     == gcpUpdate(gcpMetadata, crm, now)
      fresh == gcpUpdate(NoMetadata, crm, now)
  IN  /\ u.err => /\ u.r.byProjectID = metadataByProjectID
                  /\ u.r.byID = metadataByID
      /\ (u.listed /\ ~u.err) => /\ u.r.byProjectID = fresh.r.byProjectID
                                 /\ u.r.byID = fresh.r.byID

\* a refresh of the AWS mapping that fails leaves the mapping as it was, and
\* one that succeeds leaves the accounts of the listing and nothing else
AWSRefreshReplaces(dir) ==
  LET c == AccountByIDRefresh(awsCache, dir, now)
      r == getAccountNameByIDAPI(dir)
  IN  awsRefreshDue => IF r.err THEN c.api = accountNameByIDAPI
                       ELSE c.api = [nil |-> FALSE, m |-> r.m]

\* C24: whatever the directory service answers to a refresh made in this
\* state, a refresh that fails leaves the cached mapping as it was and one
\* that succeeds replaces it by the listing, for the AWS mapping and for the
\* GCP metadata
C24_RefreshAllOrNothing ==
  /\ source = "aws" => \A dir \in Directories : AWSRefreshReplaces(dir)
  /\ source = "gcp" => \A crm \in CrmAnswers \cup {CrmDown} : GCPRefreshReplaces(crm)

\* C25: a call of AccountByID that makes no refresh leaves every account
\* stored in accountNameByIDAPI as it was, also for an ID that has a
\* directory entry and an override
C25_ResolveLeavesCache ==
  [][(source = "aws" /\ ~awsRefreshDue /\ awsRet'.op = "AccountByID")
     => accountNameByIDAPI' = accountNameByIDAPI]_vars

(* ------------------ claims on the concurrent refresh ------------------- *)
\* goroutine p is inside the listing of a directory refresh
Refreshing(p) == queries[p].pc \in {"listing", "nameListing"}

\* goroutine p is at a read of the mapping: the lookup of AccountByID or
\* AccountNameByID, projectByID and path in the loop of OldQuery
ReadsMapping(p) ==
  \/ queries[p].pc \in {"lookup", "nameLookup"}
  \/ source = "gcp" /\ queries[p].pc = "loop"

\* C26: while a goroutine is inside the refresh of a source's directory
\* cache, no other goroutine is inside a refresh of it, and none is at a
\* read of the mapping
C26_RefreshExclusive ==
  \A p, q \in Procs :
    (p # q /\ Refreshing(p)) => ~Refreshing(q) /\ ~ReadsMapping(q)

\* a refresh is in progress while another call of Query has arrived
C26_Witness ==
  \E p, q \in Procs :
    /\ p # q /\ Refreshing(p)
    /\ queries[q].pc \in {"listed", "called"}

(* ---------------- claims on the refresh of the directory --------------- *)
\* the ancestors' names of id in the organization dir, root first, read off
\* the parent relation: ok is FALSE when a call for id or one of its
\* ancestors fails
RECURSIVE chainOf(_, _, _)
chainOf(dir, id, depth) ==
  LET ps == dir.parents[id] IN
  IF ps.err \/ Len(ps.ids) > 1 \/ depth = 0 THEN [ok |-> FALSE, path |-> <<>>]
  ELSE IF ps.ids = <<>> THEN [ok |-> TRUE, path |-> <<>>]
  ELSE IF HasPrefix(ps.ids[1], "r-")
  THEN [ok |-> ~dir.org.err, path |-> IF dir.org.err THEN <<>> ELSE <<"example.com">>]
  ELSE IF HasPrefix(ps.ids[1], "ou-")
  THEN IF dir.ous[ps.ids[1]].err \/ ~chainOf(dir, ps.ids[1], depth - 1).ok
       THEN [ok |-> FALSE, path |-> <<>>]
       ELSE [ok |-> TRUE,
             path |-> Append(chainOf(dir, ps.ids[1], depth - 1).path,
                             dir.ous[ps.ids[1]].name)]
  ELSE [ok |-> FALSE, path |-> <<>>]

\* the listed account is stored in m under its ID with the name and owner of
\* its listing and tags, and with the path of its chain of ancestors, or the
\* empty path when a call for the chain fails
StoredAsListed(dir, account, m) ==
  /\ account.Id \in DOMAIN m
  /\ m[account.Id].ID = account.Id
  /\ m[account.Id].Name = listedAccount(account).Name
  /\ m[account.Id].Owner = listedAccount(account).Owner
  /\ m[account.Id].Path = Join(chainOf(dir, account.Id, MaxDepth).path, "/")

\* C27: a refresh whose ListAccounts call succeeds succeeds as a whole, and
\* stores every listed account with its name; a failing tag or ancestor call
\* for one account leaves that account's path empty and the other accounts
\* as they are listed
C27_RefreshToleratesAccountFaults ==
  (call.fn = "getAccountNameByIDAPI" /\ result.done)
    => /\ ~result.r.err
       /\ \A i \in DOMAIN call.dir.accounts :
            StoredAsListed(call.dir, call.dir.accounts[i], result.r.m)

\* 111, whose tags cannot be listed and which has two parents, is stored
\* with its listed name and no path, next to 999 with its path
C27_Witness ==
  /\ call.fn = "getAccountNameByIDAPI" /\ result.done
  /\ call.dir.accounts[1].Tags.err
  /\ call.dir.parents["111"] = TwoParents
  /\ result.r.m["111"].Name = "legacy-name"
  /\ result.r.m["111"].Path = ""
  /\ result.r.m["999"].Path = "example.com/ou-2/ou-1"

(* ------------------- claims on the hierarchical path ------------------- *)
\* a sequence in the opposite order
Reverse(seq) == [i \in 1..Len(seq) |-> seq[Len(seq) + 1 - i]]

\* no value occurs twice in seq
NoRepeat(seq) == \A i, j \in DOMAIN seq : seq[i] = seq[j] => i = j

\* the ancestors of id in the organization dir, immediate parent first, as
\* far as depth links
RECURSIVE awsAncestors(_, _, _)
awsAncestors(dir, id, depth) ==
  IF depth = 0 \/ id \notin DOMAIN dir.parents THEN <<>>
  ELSE IF dir.parents[id].ids = <<>> THEN <<>>
  ELSE <<dir.parents[id].ids[1]>>
         \o awsAncestors(dir, dir.parents[id].ids[1], depth - 1)

\* the name the organization gives the ancestor id
awsAncestorName(dir, id) ==
  IF HasPrefix(id, "r-") THEN Split(dir.org.email, "@", "")[2]
  ELSE dir.ous[id].name

\* the chain above id is acyclic, ends at the root or at a node without
\* parent, and every call made for it is answered
awsChainClean(dir, id) ==
  LET chain == <<id>> \o awsAncestors(dir, id, MaxDepth + 1) IN
  /\ NoRepeat(chain)
  /\ \A i \in DOMAIN chain :
       /\ chain[i] \in DOMAIN dir.parents
            => ~dir.parents[chain[i]].err /\ Len(dir.parents[chain[i]].ids) <= 1
       /\ i > 1 => \/ HasPrefix(chain[i], "r-") /\ ~dir.org.err
                   \/ HasPrefix(chain[i], "ou-") /\ ~dir.ous[chain[i]].err

\* the ancestors of the entry e among the ingested folders and organizations,
\* immediate parent first, as far as depth links
RECURSIVE gcpAncestors(_, _, _)
gcpAncestors(byID, e, depth) ==
  IF depth = 0 \/ e.parent = "" \/ e.parent \notin DOMAIN byID THEN <<>>
  ELSE <<e.parent>> \o gcpAncestors(byID, byID[e.parent], depth - 1)

RECURSIVE Flatten(_)
Flatten(pages) ==
  IF pages = <<>> THEN <<>> ELSE Head(pages) \o Flatten(Tail(pages))

\* C29: among the objects of all pages of the listing Query selects the one
\* whose key is the greatest, and it downloads the selected object exactly
\* when its ETag differs from ReportHash
C29_SelectsGreatestKey ==
  (call.fn = "Query" /\ result.done)
    => LET objects == Range(Flatten(call.pages))
           billingObject == result.r.billingObject
       IN  /\ billingObject.nil <=> objects = {}
           /\ ~billingObject.nil =>
                /\ [Key |-> billingObject.Key, ETag |-> billingObject.ETag]
                     \in objects
                /\ \A o \in objects : StringsCompare(o.Key, billingObject.Key) <= 0
                /\ result.r.download <=> billingObject.ETag # call.ReportHash

\* the greatest key is listed first, on the first of two pages, and the
\* object has not been parsed
C29_Witness ==
  /\ call.fn = "Query" /\ result.done
  /\ Len(call.pages) = 2
  /\ Len(call.pages[1]) = 1 /\ Len(call.pages[2]) = 2
  /\ call.pages[1][1].Key = ReportKey("111", KeySuffixes[3])
  /\ result.r.billingObject.Key = ReportKey("111", KeySuffixes[3])
  /\ result.r.download

(* ------------------ claims on malformed report content ----------------- *)
\* the rows other than the one that lost a field
WellFormedRows(rows, short) ==
  IF short = 0 THEN rows
  ELSE SubSeq(rows, 1, short - 1) \o SubSeq(rows, short + 1, Len(rows))

\* C30: readCSV returns no error on a malformed report; it returns the
\* reduction of every LinkedLineItem record that has all its fields and a
\* cost that parses, and no element when the header lacks one of the columns
\* LinkedAccountId, ProductCode, TotalCost, CurrencyCode, so that no element
\* is built from another column
C30_RecordGranularity ==
  (call.fn = "readCSV" /\ result.done)
    => /\ ~result.r.err
       /\ result.r.elems
            = IF call.lacks # "" THEN <<>>
              ELSE awsReduceElementsByFunc(
                     LinkedLineItems(WellFormedRows(call.rows, call.short), TRUE))

\* the part of C30 that holds: a record whose cost does not parse is skipped
\* alone, in a report whose records all have the fields of the header
C30_UnparsedCostSkippedAlone ==
  (call.fn = "readCSV" /\ result.done /\ call.lacks = "" /\ call.short = 0)
    => /\ ~result.r.err
       /\ result.r.elems = awsReduceElementsByFunc(LinkedLineItems(call.rows, TRUE))

(* -------------------- claims on the service name ----------------------- *)
\* the service name of the element e as the derivation is described: the
\* direct name, the segment after "services" of the only measurement, or misc
DerivedServiceName(e) ==
  IF e.ServiceName # "" THEN e.ServiceName
  ELSE IF /\ Len(e.Measurements) = 1
          /\ Len(SplitSlash(e.Measurements[1].MeasurementID, "")) >= 3
          /\ SplitSlash(e.Measurements[1].MeasurementID, "")[2] = "services"
  THEN SplitSlash(e.Measurements[1].MeasurementID, "")[3]
  ELSE "misc"

\* C31: GetServiceName returns the direct service name when there is one,
\* the segment after "services" of the only measurement identifier when
\* there is one, and misc in every other case; the reducer names its first
\* element so
C31_ServiceNameDerivation ==
  (gcpOut # NIL /\ gcpIn # <<>>)
    => /\ \A i \in DOMAIN gcpIn :
            GetServiceName(gcpIn[i]) = DerivedServiceName(gcpIn[i])
       /\ gcpOut[1].ServiceName = DerivedServiceName(gcpIn[1])

\* the part of C31 that holds: the cases other than a single measurement
\* whose identifier has no services segment
C31_DerivationWithServicesSegment ==
  (gcpOut # NIL /\ gcpIn # <<>>)
    => \A i \in DOMAIN gcpIn :
         (\/ gcpIn[i].ServiceName # ""
          \/ Len(gcpIn[i].Measurements) # 1
          \/ "services" \in Range(gcpIn[i].Measurements[1].MeasurementID))
           => GetServiceName(gcpIn[i]) = DerivedServiceName(gcpIn[i])

(* ------------------ claims on the order of the reducer ----------------- *)
\* the distinct values of seq in the order of their first occurrence
RECURSIVE FirstSeen(_)
FirstSeen(seq) ==
  IF seq = <<>> THEN <<>>
  ELSE LET front == FirstSeen(SubSeq(seq, 1, Len(seq) - 1))
       IN  IF seq[Len(seq)] \in Range(front) THEN front
           ELSE Append(front, seq[Len(seq)])

\* C32: the i-th element the reducer returns carries the i-th distinct
\* grouping key of the input, the string groupByProjectIDServiceCurrency
\* returns, in the order of first occurrence
C32_FirstSeenOrder ==
  /\ awsOut # NIL
       => [i \in DOMAIN awsOut |-> awsGroupByProjectIDServiceCurrency(awsOut[i])]
            = FirstSeen([i \in DOMAIN awsIn |->
                           awsGroupByProjectIDServiceCurrency(awsIn[i])])
  /\ gcpOut # NIL
       => [i \in DOMAIN gcpOut |-> gcpGroupByProjectIDServiceCurrency(gcpOut[i])]
            = FirstSeen([i \in DOMAIN gcpIn |->
                           gcpGroupByProjectIDServiceCurrency(gcpIn[i])])

\* three items, the first and the last of one key, have been reduced to two
C32_Witness ==
  /\ gcpOut # NIL
  /\ Len(gcpIn) = 3
  /\ gcpGroupByProjectIDServiceCurrency(gcpIn[1])
       = gcpGroupByProjectIDServiceCurrency(gcpIn[3])
  /\ gcpGroupByProjectIDServiceCurrency(gcpIn[1])
       # gcpGroupByProjectIDServiceCurrency(gcpIn[2])
  /\ Len(gcpOut) = 2

(* ------------------ claims on the life of metricValues ----------------- *)
\* the greater of two costs
Max(a, b) == IF a > b THEN a ELSE b

\* the keys a pass came to
PassKeys(pass) == {pass[i].key : i \in DOMAIN pass}

\* C33: in the GCP source a key of metricValues stays in metricValues and its
\* value never falls, across passes, calls of Query and changes of the month;
\* a pass leaves for every key it comes to the greater of the value held
\* before (0 for a new key) and the cumulative value it observes, so the
\* value held is the maximum of 0 and all values observed
C33_MetricValuesOnlyGrow ==
  /\ [](source = "gcp" => \A key \in DOMAIN gcpMetricValues :
                             gcpMetricValues[key] >= 0)
  /\ [][source = "gcp" =>
          /\ \A key \in DOMAIN gcpMetricValues :
               /\ key \in DOMAIN gcpMetricValues'
               /\ gcpMetricValues'[key] >= gcpMetricValues[key]
          /\ (GCPOldQueryStep /\ gcpRet'.err = "") =>
               /\ DOMAIN gcpMetricValues'
                    = DOMAIN gcpMetricValues \cup PassKeys(gcpRet'.pass)
               /\ \A i \in DOMAIN gcpRet'.pass :
                    gcpMetricValues'[gcpRet'.pass[i].key]
                      = Max(withKey(gcpMetricValues, gcpRet'.pass[i].key)
                              [gcpRet'.pass[i].key],
                            gcpRet'.pass[i].value)
               /\ \A key \in DOMAIN gcpMetricValues \ PassKeys(gcpRet'.pass) :
                    gcpMetricValues'[key] = gcpMetricValues[key]]_vars

\* a pass on the window of a new month has left the value of a key that the
\* window no longer holds
C33_Witness ==
  /\ gcpRet.op = "OldQuery" /\ gcpRet.err = ""
  /\ gcpRet.pass # <<>>
  /\ \E key \in DOMAIN gcpMetricValues \ PassKeys(gcpRet.pass) :
       gcpMetricValues[key] > 0

(* -------------------- claims on the grouping key ----------------------- *)
\* C34: two line items handed to a reducer get the same grouping key exactly
\* when they agree on account, service and currency, so the reducer returns
\* one element per triple
C34_KeyInjective ==
  /\ awsOut # NIL
       => /\ \A i, j \in DOMAIN awsIn :
               awsGroupByProjectIDServiceCurrency(awsIn[i])
                 = awsGroupByProjectIDServiceCurrency(awsIn[j])
               <=> awsTriple(awsIn[i]) = awsTriple(awsIn[j])
          /\ Len(awsOut) = Cardinality({awsTriple(awsIn[i]) : i \in DOMAIN awsIn})
  /\ gcpOut # NIL
       => /\ \A i, j \in DOMAIN gcpIn :
               gcpGroupByProjectIDServiceCurrency(gcpIn[i])
                 = gcpGroupByProjectIDServiceCurrency(gcpIn[j])
               <=> gcpTriple(gcpIn[i]) = gcpTriple(gcpIn[j])
          /\ Len(gcpOut) = Cardinality({gcpTriple(gcpIn[i]) : i \in DOMAIN gcpIn})

\* the part of C34 that holds: items that agree on the triple get the same
\* key
C34_SameTripleSameKey ==
  /\ awsOut # NIL
       => \A i, j \in DOMAIN awsIn :
            awsTriple(awsIn[i]) = awsTriple(awsIn[j])
            => awsGroupByProjectIDServiceCurrency(awsIn[i])
                 = awsGroupByProjectIDServiceCurrency(awsIn[j])
  /\ gcpOut # NIL
       => \A i, j \in DOMAIN gcpIn :
            gcpTriple(gcpIn[i]) = gcpTriple(gcpIn[j])
            => gcpGroupByProjectIDServiceCurrency(gcpIn[i])
                 = gcpGroupByProjectIDServiceCurrency(gcpIn[j])

(* ---------------- claims on the counters per key ----------------------- *)
\* the labels a pass exports the key under, once the pass has left the
\* directory cache c
exportedUnder(c, override, key) ==
  LET e == CHOOSE e \in {awsBillingElement(id, svc, 0, "USD") :
                           id \in AccountIDs, svc \in {"S3", "EC2"}} :
             awsGroupByProjectIDServiceCurrency(e) = key
  IN  awsLabels(e, AccountByIDLookup(c, override, e.ProjectID).account)

\* the value of a series, 0 before it is created
seriesValue(counters, labels) ==
  IF labels \in DOMAIN counters THEN counters[labels] ELSE 0

\* C35: exported counters agree with CounterState. Per key the sum of the
\* series fed from the key is metricValues[key]; said of one successful
\* pass: the series the pass exports a key under grows by exactly what
\* metricValues[key] grows by
C35_SeriesAgreeWithCounterState ==
  [][(source = "aws" /\ awsRet'.op = "Query" /\ awsRet'.err = "")
       => \A i \in DOMAIN awsRet'.pass :
            LET key == awsRet'.pass[i].key
                labels == exportedUnder(awsCache', accountNameByIDOverride, key)
            IN  seriesValue(awsMetricMonthlyCosts', labels)
                  - seriesValue(awsMetricMonthlyCosts, labels)
                = awsMetricValues'[key] - withKey(awsMetricValues, key)[key]]_vars

\* the same with the keys of a pass taken together per series: a series
\* grows by what the metricValues of all the keys exported under it grow by
C35_SeriesAgreePerLabelSet ==
  [][(source = "aws" /\ awsRet'.op = "Query" /\ awsRet'.err = "")
       => \A i \in DOMAIN awsRet'.pass :
            LET labels == exportedUnder(awsCache', accountNameByIDOverride,
                                        awsRet'.pass[i].key)
                same == {k \in DOMAIN awsRet'.pass :
                           exportedUnder(awsCache', accountNameByIDOverride,
                                         awsRet'.pass[k].key) = labels}
            IN  seriesValue(awsMetricMonthlyCosts', labels)
                  - seriesValue(awsMetricMonthlyCosts, labels)
                = SumOver([k \in same |->
                             awsMetricValues'[awsRet'.pass[k].key]
                               - withKey(awsMetricValues,
                                         awsRet'.pass[k].key)
                                   [awsRet'.pass[k].key]], same)]_vars

(* ------------------- claims on the locks of Query ---------------------- *)
\* goroutine p is in a call of Query or OldQuery
InQuery(p) == queries[p].pc # "idle"

\* goroutine p is in the part of its call that runs under ReportsLock
UnderReportsLock(p) == queries[p].pc \notin {"idle", "listed", "called"}

holdsCostsOf(metricValues, records) ==
  /\ ~readCSV(records).err
  /\ \A i \in DOMAIN readCSV(records).elems :
       LET e == readCSV(records).elems[i]
           key == awsGroupByProjectIDServiceCurrency(e)
       IN  key \in DOMAIN metricValues /\ metricValues[key] = e.Costs

\* C37: ReportHash identifies the content held in CounterState: whenever it
\* is non-empty it is the hash of the content whose per-key costs
\* metricValues holds
C37_ReportHashIdentifiesContent ==
  (source = "aws" /\ ReportHash # "")
    => \E i \in DOMAIN AWSReports :
         /\ ETagOf(i) = ReportHash
         /\ holdsCostsOf(awsMetricValues, AWSReports[i])

\* ReportHash changes only in a call of Query that downloaded, parsed and
\* reconciled a report without error, and becomes the ETag the listing gave
C37_ReportHashSetAtEndOfPass ==
  [][(source = "aws" /\ ReportHash' # ReportHash)
       => /\ awsRet'.op = "Query" /\ awsRet'.err = ""
          /\ awsRet'.downloaded /\ awsRet'.parsed
          /\ ReportHash' = awsRet'.selected]_vars

(* ------------------ claims on the two-level reduction ------------------ *)
\* the (key, cost) pairs of a sequence of reduced elements
keyCosts(elems) ==
  {<<gcpTriple(elems[i]), GetValue(elems[i])>> : i \in DOMAIN elems}

\* the elements OldQuery gathers when the items come in the slots
\* 1..k, k+1..l and l+1.. of the window, each reduced by getReportFile
gatheredFrom(items, k, l) ==
  reduceElementsByProjectIDServiceCurrency(SubSeq(items, 1, k))
    \o reduceElementsByProjectIDServiceCurrency(SubSeq(items, k + 1, l))
    \o reduceElementsByProjectIDServiceCurrency(SubSeq(items, l + 1, Len(items)))

\* C38: the two-level reduction is sound. The reducer leaves its input as it
\* was; reducing what it returned returns the same; and however the items
\* are cut into slots, reducing the reduced slots together gives the
\* (key, cost) pairs of reducing all the items once
C38_TwoLevelReductionSound ==
  /\ [](gcpOut # NIL
          => /\ reduceElementsByProjectIDServiceCurrency(gcpOut) = gcpOut
             /\ \A l \in 0..Len(gcpIn) : \A k \in 0..l :
                  keyCosts(reduceElementsByProjectIDServiceCurrency(
                             gatheredFrom(gcpIn, k, l)))
                    = keyCosts(gcpOut))
  /\ [][gcpIn' = gcpIn]_vars

\* three items of one group have been reduced to one element
C38_Witness ==
  /\ gcpOut # NIL
  /\ Len(gcpIn) = 3
  /\ Len(gcpOut) = 1
  /\ gcpOut[1].Cost.Value
       = GetValue(gcpIn[1]) + GetValue(gcpIn[2]) + GetValue(gcpIn[3])

(* ------------------------ claims on the exporter ----------------------- *)
\* C18: a source whose Test returned an error at startup is not among the
\* collectors and no Collect calls Query on it; a source whose Test
\* succeeded is among them and is queried once by every Collect
C18_OnlyTestedSourcesQueried ==
  \A s \in Sources :
    /\ tested[s] = "failed"
         => s \notin Range(collectors) /\ s \notin inFlight /\ queried[s] = 0
    /\ tested[s] = "ok"
         => /\ s \in Range(collectors)
            /\ queried[s] = IF s \in inFlight THEN collects - 1 ELSE collects

\* two scrapes were served with the AWS source excluded and the GCP one
\* active
C18_Witness ==
  /\ tested["aws"] = "failed"
  /\ tested["gcp"] = "ok"
  /\ collects >= 2
  /\ run = "serving"
  /\ queried["gcp"] = collects
  /\ queried["aws"] = 0

====
